---- MODULE Spec2Model ----
(***************************************************************************)
(* Imposition matrix engine of pdfimpose.                                  *)
(*                                                                         *)
(* Lengths are integers; every input margin and creep value is drawn from  *)
(* even numbers, so that the halves the code takes (imargin / 2,           *)
(* creep / 2) are exact.  Coordinates (x, y) are 0-based as in the code;   *)
(* a matrix is a sequence of columns, column x being pages[x + 1].         *)
(***************************************************************************)
EXTENDS Integers, Sequences, FiniteSets, TLC

VARIABLES
    cfg,            \* constructor arguments of the impositor object
    group,          \* self.group (cutstackfold and copycutfold overwrite it)
    pc,             \* position of the running call
    files,          \* page count of each source document
    blank_number,   \* Reader._blank_number
    blank_position, \* Reader._blank_position
    pages,          \* argument given to matrixes()
    mats,           \* matrices yielded by matrixes(), in order
    base_mats,      \* matrices yielded by base_matrix() called on its own
    group_mats,     \* matrices yielded by group_matrixes() called on its own
    raised,         \* exception that ended the call, "" if none
    mi,             \* index (from 1) of the matrix being imposed
    si,             \* number of slots of that matrix already visited
    destpage,       \* output page number returned by new_page for it
    calls,          \* calls received by the writer, in order
    reader_open,    \* the source documents are open
    writer_open,    \* the output document is open
    saved,          \* the output document has been saved
    invoked,        \* what impose has called: methods of the impositor, Reader, Writer
    heap,           \* the Page objects, by address
    objs,           \* the Matrix objects: grids of Page addresses
    op,             \* the last operation on a Matrix object
    fit,            \* a call of compute_signature: arguments and outcome
    segments,       \* the crop marks yielded for one output page
    cli,            \* the perfect command line: its arguments and what it resolves to
    legacy          \* the legacy module: ImpositionMatrix.folds and the calls made

vars == <<cfg, group, pc, files, blank_number, blank_position, pages, mats,
          base_mats, group_mats, raised, mi, si, destpage, calls, reader_open, writer_open, saved,
          invoked, heap, objs, op, fit, segments, cli, legacy>>

(***************************************************************************)
(* Bounds                                                                  *)
(***************************************************************************)
MaxW == 2
MaxH == 2
MaxGroup == 3
MaxFolds == 3
MaxPages == 16
MaxJobPages == 5

(***************************************************************************)
(* common.py: constants, Margins, Page, Matrix                             *)
(***************************************************************************)
Binds == {"left", "top", "right", "bottom"}

BIND2ANGLE == [b \in Binds |->
    CASE b = "left" -> 0 [] b = "top" -> 90 [] b = "right" -> 180 [] b = "bottom" -> 270]

Margins(l, r, t, b) == [left |-> l, right |-> r, top |-> t, bottom |-> b]

Margins1(v) == Margins(v, v, v, v)

Page(n, rot, l, r, t, b) ==
    [number |-> n, rotate |-> rot, left |-> l, right |-> r, top |-> t, bottom |-> b]

PageM(n, rot, m) == Page(n, rot, m.left, m.right, m.top, m.bottom)

Width(m) == Len(m)

Height(m) == Len(m[1])

At(m, x, y) == m[x + 1][y + 1]

\* Matrix.coordinates: x outer, y inner
Coordinates(m) == [k \in 1..(Width(m) * Height(m)) |->
    <<(k - 1) \div Height(m), (k - 1) % Height(m)>>]

\* Matrix(pages, rotate): __post_init__ adds rotate to every slot
Matrix(pgs, rot) ==
    [x \in 1..Len(pgs) |-> [y \in 1..Len(pgs[x]) |->
        [pgs[x][y] EXCEPT !.rotate = (pgs[x][y].rotate + rot) % 360]]]

Copy(m) == Matrix([x \in 1..Width(m) |-> [y \in 1..Height(m) |-> At(m, x - 1, y - 1)]], 0)

\* stack() that never numbers a page below 0
StackNonNegative(m, number) ==
    Matrix([x \in 1..Width(m) |-> [y \in 1..Height(m) |->
        [At(m, x - 1, y - 1) EXCEPT
            !.number = IF At(m, x - 1, y - 1).number + number < 0 THEN 0
                       ELSE At(m, x - 1, y - 1).number + number]]], 0)

Stack(m, number) ==
    Matrix([x \in 1..Width(m) |-> [y \in 1..Height(m) |->
        [At(m, x - 1, y - 1) EXCEPT !.number = At(m, x - 1, y - 1).number + number]]], 0)

\* AbstractImpositor.stack_matrixes: repetition i outer, matrix inner
stack_matrixes(matrixes, step, repeat) ==
    [k \in 1..(repeat * Len(matrixes)) |->
        Stack(matrixes[((k - 1) % Len(matrixes)) + 1], ((k - 1) \div Len(matrixes)) * step)]

\* the creep function: s |-> slope * s + yintercept (nocreep is 0 * s + 0)
Creep(c, s) == c.slope * s + c.yintercept

(***************************************************************************)
(* cards                                                                   *)
(***************************************************************************)
\* margins the cards and wire base matrices give to the recto slot (x, y)
\* recto margins with the output margins around every slot
CardsRectoMarginsOuterEverywhere(c, x, y) == c.omargin

CardsRectoMargins(c, x, y) == Margins(
    IF x = 0 THEN c.omargin.left ELSE c.imargin \div 2,
    IF x = c.signature[1] - 1 THEN c.omargin.right ELSE c.imargin \div 2,
    IF y = 0 THEN c.omargin.top ELSE c.imargin \div 2,
    IF y = c.signature[2] - 1 THEN c.omargin.bottom ELSE c.imargin \div 2)

\* margins of the verso page built in iteration (x, y), stored at (w - x - 1, y)
CardsVersoMargins(c, x, y) == Margins(
    IF x = c.signature[1] - 1 THEN c.omargin.left ELSE c.imargin \div 2,
    IF x = 0 THEN c.omargin.right ELSE c.imargin \div 2,
    IF y = 0 THEN c.omargin.top ELSE c.imargin \div 2,
    IF y = c.signature[2] - 1 THEN c.omargin.bottom ELSE c.imargin \div 2)

CardsBlankPageNumber(c, source) ==
    LET pagesperpage == 2 * c.signature[1] * c.signature[2]
    IN  IF source % pagesperpage = 0 THEN 0 ELSE pagesperpage - (source % pagesperpage)

\* base_matrix writing verso[x][y] instead of verso[w - x - 1][y]
CardsBaseMatrixVersoNotMirrored(c, total) ==
    LET w == c.signature[1]
        h == c.signature[2]
        recto == [x \in 1..w |-> [y \in 1..h |->
                    PageM(2 * ((x - 1) * h + (y - 1)), 0, CardsRectoMargins(c, x - 1, y - 1))]]
        verso == [x \in 1..w |-> [y \in 1..h |->
                    PageM(2 * ((x - 1) * h + (y - 1)) + 1, 0,
                          CardsVersoMargins(c, x - 1, y - 1))]]
    IN  <<Matrix(recto, 0), Matrix(verso, 0)>>

\* i = x * h + y is the rank of (x, y) in itertools.product(range(w), range(h))
CardsBaseMatrix(c, total) ==
    LET w == c.signature[1]
        h == c.signature[2]
        recto == [x \in 1..w |-> [y \in 1..h |->
                    PageM(2 * ((x - 1) * h + (y - 1)), 0, CardsRectoMargins(c, x - 1, y - 1))]]
        \* verso[w - x - 1][y] is written in iteration (x, y): column vx holds x = w - 1 - vx
        verso == [vx \in 1..w |-> [y \in 1..h |->
                    PageM(2 * ((w - vx) * h + (y - 1)) + 1, 0,
                          CardsVersoMargins(c, w - vx, y - 1))]]
    IN  <<Matrix(recto, 0), Matrix(verso, 0)>>

CardsMatrixes(c, n) ==
    LET step == 2 * c.signature[1] * c.signature[2]
    IN  IF n % step # 0
        THEN [raised |-> "AssertionError", mats |-> <<>>]
        ELSE [raised |-> "", mats |-> stack_matrixes(CardsBaseMatrix(c, n), step, n \div step)]

(***************************************************************************)
(* wire                                                                    *)
(***************************************************************************)
WireBaseMatrix(c, total) ==
    LET w == c.signature[1]
        h == c.signature[2]
        repeat == total \div (2 * w * h)
        recto == [x \in 1..w |-> [y \in 1..h |->
                    PageM(2 * ((x - 1) * h + (y - 1)) * repeat, 0,
                          CardsRectoMargins(c, x - 1, y - 1))]]
        verso == [vx \in 1..w |-> [y \in 1..h |->
                    PageM(2 * ((w - vx) * h + (y - 1)) * repeat + 1, 0,
                          CardsVersoMargins(c, w - vx, y - 1))]]
    IN  <<Matrix(recto, 0), Matrix(verso, 0)>>

\* matrixes stacking with the step of cards (2 * w * h) instead of 2
WireMatrixesCardsStep(c, n) ==
    LET step == 2 * c.signature[1] * c.signature[2]
    IN  IF n % step # 0
        THEN [raised |-> "AssertionError", mats |-> <<>>]
        ELSE [raised |-> "", mats |-> stack_matrixes(WireBaseMatrix(c, n), step, n \div step)]

WireMatrixes(c, n) ==
    LET step == 2 * c.signature[1] * c.signature[2]
    IN  IF n % step # 0
        THEN [raised |-> "AssertionError", mats |-> <<>>]
        ELSE [raised |-> "", mats |-> stack_matrixes(WireBaseMatrix(c, n), 2, n \div step)]

(***************************************************************************)
(* onepagezine                                                             *)
(***************************************************************************)
ZineBlankPageNumber(source) == IF source % 8 = 0 THEN 0 ELSE 8 - (source % 8)

ZineBaseMatrix(c, total) ==
    LET o == c.omargin
    IN  <<Matrix(<<
            <<Page(4, 180, o.left, 0, o.top, 0), Page(5, 0, o.left, 0, 0, o.bottom)>>,
            <<Page(3, 180, 0, 0, o.top, 0),      Page(6, 0, 0, 0, 0, o.bottom)>>,
            <<Page(2, 180, 0, 0, o.top, 0),      Page(7, 0, 0, 0, 0, o.bottom)>>,
            <<Page(1, 180, 0, o.right, o.top, 0), Page(0, 0, 0, o.right, 0, o.bottom)>>
          >>, BIND2ANGLE[c.bind])>>

\* matrixes building every stacked copy with rotate=BIND2ANGLE[self.bind] again
ZineMatrixesBindTwice(c, n) ==
    IF n % 8 # 0
    THEN [raised |-> "AssertionError", mats |-> <<>>]
    ELSE [raised |-> "",
          mats |-> [k \in 1..(n \div 8) |->
                      Matrix(Stack(ZineBaseMatrix(c, n)[1], (k - 1) * 8), BIND2ANGLE[c.bind])]]

ZineMatrixes(c, n) ==
    IF n % 8 # 0
    THEN [raised |-> "AssertionError", mats |-> <<>>]
    ELSE [raised |-> "", mats |-> stack_matrixes(ZineBaseMatrix(c, n), 8, n \div 8)]

(***************************************************************************)
(* cutstackfold                                                            *)
(***************************************************************************)
\* blank_page_number padding to 2 * w * h, one sheet side, instead of 4 * w * h
CutStackFoldBlankPageNumberOneSide(c, source) ==
    LET pagesperpage == 2 * c.signature[1] * c.signature[2]
    IN  IF source % pagesperpage = 0 THEN 0 ELSE pagesperpage - (source % pagesperpage)

CutStackFoldBlankPageNumber(c, source) ==
    LET pagesperpage == 4 * c.signature[1] * c.signature[2]
    IN  IF source % pagesperpage = 0 THEN 0 ELSE pagesperpage - (source % pagesperpage)

\* CutStackFoldImpositor.margins, x ranging over the 2 * w columns
CutStackFoldMargins(c, x, y) ==
    LET base == Margins(
            IF x % 2 = 1 THEN 0 ELSE c.imargin \div 2,
            IF x % 2 = 0 THEN 0 ELSE c.imargin \div 2,
            IF y = 0 THEN c.omargin.top ELSE c.imargin \div 2,
            IF y = c.signature[2] - 1 THEN c.omargin.bottom ELSE c.imargin \div 2)
        withleft == IF x = 0 THEN [base EXCEPT !.left = c.omargin.left] ELSE base
    IN  IF x = 2 * c.signature[1] - 1
        THEN [withleft EXCEPT !.right = c.omargin.right]
        ELSE withleft

\* the recto and verso of layer `inner`, of the stack // 2 layers base_matrix yields
\* base_matrix with the two verso columns of each pair exchanged
CutStackFoldLayerVersoSwapped(c, total, inner) ==
    LET w == c.signature[1]
        h == c.signature[2]
        stack == total \div (2 * w * h)
        recto == [cx \in 1..(2 * w) |-> [y \in 1..h |->
            LET i == ((cx - 1) \div 2) * h + (y - 1)
            IN  PageM(IF (cx - 1) % 2 = 0
                      THEN total - i * stack - 2 * inner - 1
                      ELSE i * stack + 2 * inner,
                      0, CutStackFoldMargins(c, cx - 1, y - 1))]]
        verso == [cx \in 1..(2 * w) |-> [y \in 1..h |->
            LET i == ((2 * w - cx) \div 2) * h + (y - 1)
            IN  PageM(IF (cx - 1) % 2 = 0
                      THEN total - i * stack - 2 * inner - 2
                      ELSE i * stack + 2 * inner + 1,
                      0, CutStackFoldMargins(c, cx - 1, y - 1))]]
    IN  <<Matrix(recto, BIND2ANGLE[c.bind]), Matrix(verso, BIND2ANGLE[c.bind])>>

CutStackFoldLayer(c, total, inner) ==
    LET w == c.signature[1]
        h == c.signature[2]
        stack == total \div (2 * w * h)
        recto == [cx \in 1..(2 * w) |-> [y \in 1..h |->
            LET i == ((cx - 1) \div 2) * h + (y - 1)
            IN  PageM(IF (cx - 1) % 2 = 0
                      THEN total - i * stack - 2 * inner - 1
                      ELSE i * stack + 2 * inner,
                      0, CutStackFoldMargins(c, cx - 1, y - 1))]]
        \* iteration (x, y) writes verso columns 2w - 2x - 1 and 2w - 2x - 2
        verso == [cx \in 1..(2 * w) |-> [y \in 1..h |->
            LET i == ((2 * w - cx) \div 2) * h + (y - 1)
            IN  PageM(IF (cx - 1) % 2 = 1
                      THEN total - i * stack - 2 * inner - 2
                      ELSE i * stack + 2 * inner + 1,
                      0, CutStackFoldMargins(c, cx - 1, y - 1))]]
    IN  <<Matrix(recto, BIND2ANGLE[c.bind]), Matrix(verso, BIND2ANGLE[c.bind])>>

CutStackFoldBaseMatrix(c, total) ==
    LET stack == total \div (2 * c.signature[1] * c.signature[2])
    IN  [k \in 1..(2 * (stack \div 2)) |->
            CutStackFoldLayer(c, total, (k - 1) \div 2)[((k - 1) % 2) + 1]]

RECURSIVE MaxOver(_, _, _)
\* max(f(n) for n in range(from, to)), to > from
MaxOver(cr, from, to) ==
    IF from + 1 >= to THEN Creep(cr, from)
    ELSE LET rest == MaxOver(cr, from + 1, to)
         IN  IF Creep(cr, from) >= rest THEN Creep(cr, from) ELSE rest

\* _max_creep; max() of an empty range raises ValueError
CutStackFoldMaxCreep(c, total) == MaxOver(c.creep, 0, total \div 4)

\* the argument of self.creep in the turn (x, y) of the creep loop for base
\* matrix `number`: included + stacks * self.group
CutStackFoldDepth(c, g, number, x, y) ==
    (g - number \div 2 - 1) + (c.signature[2] * (1 - x \div 2) + c.signature[1] - y) * g

\* the creep loop of matrixes applied to base matrix `number` (0-based)
CutStackFoldCreepMatrix(c, g, maxcreep, number, matrix) ==
    [cx \in 1..Width(matrix) |-> [cy \in 1..Height(matrix) |->
        LET y == cy - 1
            \* the slot (cx - 1, y) is mutated in the iteration whose x is:
            x == IF number % 2 = 1 THEN Width(matrix) - (cx - 1) - 1 ELSE cx - 1
            creep == Creep(c.creep, CutStackFoldDepth(c, g, number, x, y))
            p == matrix[cx][cy]
        IN  IF (cx - 1) % 2 = 0
            THEN [p EXCEPT !.left = @ + (maxcreep - creep) \div 2, !.right = @ + creep \div 2]
            ELSE [p EXCEPT !.left = @ + creep \div 2, !.right = @ + (maxcreep - creep) \div 2]]]

\* matrixes(pages) on an object whose self.group is g; returns the new self.group
CutStackFoldMatrixes(c, g, n) ==
    LET pages_per_sheet == 4 * c.signature[1] * c.signature[2]
        g2 == IF g = 0 THEN n \div pages_per_sheet ELSE g
        maxcreep == CutStackFoldMaxCreep(c, g2 * pages_per_sheet)
        base == CutStackFoldBaseMatrix(c, g2 * pages_per_sheet)
        group_matrixes == [k \in 1..Len(base) |->
            CutStackFoldCreepMatrix(c, g2, maxcreep, k - 1, base[k])]
    IN  IF n % pages_per_sheet # 0
        THEN [raised |-> "AssertionError", mats |-> <<>>, group |-> g]
        ELSE IF (g2 * pages_per_sheet) \div 4 = 0
        THEN [raised |-> "ValueError", mats |-> <<>>, group |-> g2]
        ELSE [raised |-> "", group |-> g2,
              mats |-> stack_matrixes(group_matrixes, pages_per_sheet * g2,
                                      n \div (g2 * pages_per_sheet))]

(***************************************************************************)
(* copycutfold                                                             *)
(***************************************************************************)
CopyCutFoldBlankPageNumber(source) == IF source % 4 = 0 THEN 0 ELSE 4 - (source % 4)

CopyCutFoldBaseMatrix(c, total) ==
    LET w == c.signature[1]
        h == c.signature[2]
        recto == [cx \in 1..(2 * w) |-> [y \in 1..h |->
            PageM(IF (cx - 1) % 2 = 0 THEN 3 ELSE 0, 0, CutStackFoldMargins(c, cx - 1, y - 1))]]
        verso == [cx \in 1..(2 * w) |-> [y \in 1..h |->
            PageM(IF (cx - 1) % 2 = 0 THEN 1 ELSE 2, 0, CutStackFoldMargins(c, cx - 1, y - 1))]]
    IN  <<Matrix(recto, BIND2ANGLE[c.bind]), Matrix(verso, BIND2ANGLE[c.bind])>>

\* AbstractImpositor.insert_sheets applied to one matrix
InsertSheet(c, matrix, sheets, total, pagespersheet) ==
    [cx \in 1..Width(matrix) |-> [cy \in 1..Height(matrix) |->
        LET p == matrix[cx][cy]
            crept == IF (cx - 1) % 2 = 0
                     THEN [p EXCEPT !.right = Creep(c.creep, sheets) \div 2]
                     ELSE [p EXCEPT !.left = Creep(c.creep, sheets) \div 2]
        IN  IF p.number < pagespersheet
            THEN [crept EXCEPT !.number = p.number + pagespersheet * sheets]
            ELSE [crept EXCEPT !.number = total - (sheets + 2) * pagespersheet + p.number]]]

insert_sheets(c, matrixes, sheets, total, pagespersheet) ==
    [k \in 1..Len(matrixes) |-> InsertSheet(c, matrixes[k], sheets, total, pagespersheet)]

CeilDiv(a, b) == (a + b - 1) \div b

\* matrixes(pages) on an object whose self.group is g; returns the new self.group
CopyCutFoldMatrixes(c, g, n) ==
    LET g2 == IF g = 0 THEN CeilDiv(n, 4) ELSE g
        base_matrixes == CopyCutFoldBaseMatrix(c, 4 * g2)
        copies == [k \in 1..Len(base_matrixes) |-> Copy(base_matrixes[k])]
        \* group_matrixes.extend(insert_sheets(copies, i, 4 * group, 2)) for i in range(group)
        group_matrixes == [k \in 1..(2 * g2) |->
            insert_sheets(c, copies, (k - 1) \div 2, 4 * g2, 2)[((k - 1) % 2) + 1]]
    IN  IF n % 4 # 0
        THEN [raised |-> "AssertionError", mats |-> <<>>, group |-> g]
        ELSE [raised |-> "", group |-> g2,
              mats |-> stack_matrixes(group_matrixes, 4 * g2, CeilDiv(n, 4 * g2))]

(***************************************************************************)
(* perfect                                                                 *)
(***************************************************************************)
evenodd2oddeven(number) == IF number % 2 = 0 THEN number + 1 ELSE number - 1

RECURSIVE Count(_, _)
\* str.count on a fold sequence
Count(folds, ch) ==
    IF folds = <<>> THEN 0
    ELSE (IF folds[1] = ch THEN 1 ELSE 0) + Count(Tail(folds), ch)

RECURSIVE Pow2(_)
Pow2(k) == IF k = 0 THEN 1 ELSE 2 * Pow2(k - 1)

\* PerfectImpositor.__post_init__
PerfectSignature(folds) == <<Pow2(Count(folds, "h")), Pow2(Count(folds, "v"))>>

fix_group(c, n) ==
    IF c.group = 0
    THEN CeilDiv(n, 2 * c.signature[1] * c.signature[2])
    ELSE c.group

\* blank_page_number padding to one sheet, whatever the group
PerfectBlankPageNumberNoGroup(c, source) ==
    LET pagesperpage == 2 * c.signature[1] * c.signature[2]
    IN  IF source % pagesperpage = 0 THEN 0 ELSE pagesperpage - (source % pagesperpage)

PerfectBlankPageNumber(c, source) ==
    LET pagesperpage == 2 * c.signature[1] * c.signature[2]
    IN  IF source % (pagesperpage * fix_group(c, source)) = 0
        THEN 0
        ELSE pagesperpage * fix_group(c, source)
             - (source % (pagesperpage * fix_group(c, source)))

\* _margins giving the left output margin to the top slot of column 0 only
PerfectMarginsCornerOnly(c, x, y) ==
    LET base == Margins(
            IF x % 2 = 1 THEN 0 ELSE c.imargin \div 2,
            IF x % 2 = 0 THEN 0 ELSE c.imargin \div 2,
            IF y = 0 THEN c.omargin.top ELSE c.imargin \div 2,
            IF y = c.signature[2] - 1 THEN c.omargin.bottom ELSE c.imargin \div 2)
        withleft == IF x = 0 /\ y = 0 THEN [base EXCEPT !.left = c.omargin.left] ELSE base
    IN  IF x = c.signature[1] - 1
        THEN [withleft EXCEPT !.right = c.omargin.right]
        ELSE withleft

PerfectMargins(c, x, y) ==
    LET base == Margins(
            IF x % 2 = 1 THEN 0 ELSE c.imargin \div 2,
            IF x % 2 = 0 THEN 0 ELSE c.imargin \div 2,
            IF y = 0 THEN c.omargin.top ELSE c.imargin \div 2,
            IF y = c.signature[2] - 1 THEN c.omargin.bottom ELSE c.imargin \div 2)
        withleft == IF x = 0 THEN [base EXCEPT !.left = c.omargin.left] ELSE base
    IN  IF x = c.signature[1] - 1
        THEN [withleft EXCEPT !.right = c.omargin.right]
        ELSE withleft

\* a slot of the recto under construction that holds None
NoPage == -1

RECURSIVE Nones(_)
\* [None] * n
Nones(n) == IF n = 0 THEN <<>> ELSE <<NoPage>> \o Nones(n - 1)

RECURSIVE NoneColumns(_, _)
\* [[None] * h for column in recto], recto having n columns
NoneColumns(n, h) == IF n = 0 THEN <<>> ELSE <<Nones(h)>> \o NoneColumns(n - 1, h)

\* recto[x][y] = v
SetSlot(recto, x, y, v) ==
    SubSeq(recto, 1, x)
    \o <<SubSeq(recto[x + 1], 1, y) \o <<v>> \o SubSeq(recto[x + 1], y + 2, Len(recto[x + 1]))>>
    \o SubSeq(recto, x + 2, Len(recto))

\* the in-place fill loops of base_matrix: visit slot k (x outer, y inner) and the
\* following ones; a None slot takes total - (its neighbour) - 1, and reading a
\* neighbour that is still None raises TypeError
RECURSIVE FillFold(_, _, _, _)
FillFold(recto, fold, total, k) ==
    LET h == Len(recto[1])
        x == k \div h
        y == k % h
        nb == IF fold = "h" THEN recto[evenodd2oddeven(x) + 1][y + 1]
                            ELSE recto[x + 1][evenodd2oddeven(y) + 1]
    IN  IF k >= Len(recto) * h THEN [raised |-> "", recto |-> recto]
        ELSE IF recto[x + 1][y + 1] # NoPage THEN FillFold(recto, fold, total, k + 1)
        ELSE IF nb = NoPage THEN [raised |-> "TypeError", recto |-> recto]
        ELSE FillFold(SetSlot(recto, x, y, total - nb - 1), fold, total, k + 1)

RECURSIVE OpenRows(_, _)
\* column[: len // 2] + [None] * len + column[len // 2 :] for each of the first n columns
OpenRows(recto, n) ==
    IF n = 0 THEN <<>>
    ELSE OpenRows(recto, n - 1)
         \o <<SubSeq(recto[n], 1, Len(recto[n]) \div 2)
              \o Nones(Len(recto[n]))
              \o SubSeq(recto[n], Len(recto[n]) \div 2 + 1, Len(recto[n]))>>

\* one fold: insert None columns (h) or None rows (v) in the middle, then fill
FoldOnce(recto, fold, total) ==
    LET w == Len(recto)
        h == Len(recto[1])
        opened == IF fold = "h"
                  THEN SubSeq(recto, 1, w \div 2)
                       \o NoneColumns(w, h)
                       \o SubSeq(recto, w \div 2 + 1, w)
                  ELSE OpenRows(recto, w)
    IN  FillFold(opened, fold, total, 0)

RECURSIVE FoldAll(_, _, _)
\* the loop over self.folds, started with recto = [[0]] and total = 2
FoldAll(recto, folds, total) ==
    IF folds = <<>> THEN [raised |-> "", recto |-> recto]
    ELSE LET r == FoldOnce(recto, folds[1], 2 * total)
         IN  IF r.raised # "" THEN r ELSE FoldAll(r.recto, Tail(folds), 2 * total)

PerfectRotate(c, y) ==
    IF c.signature[2] = 1
    THEN (IF y % 2 = 0 THEN 0 ELSE 180)
    ELSE (IF y % 2 = 0 THEN 180 ELSE 0)

PerfectBaseMatrix(c, total) ==
    LET r == FoldAll(<<<<0>>>>, c.folds, 2)
        recto == r.recto
        w == Len(recto)
    IN  IF r.raised # "" THEN [raised |-> r.raised, mats |-> <<>>]
        ELSE [raised |-> "", mats |-> <<
            Matrix([x \in 1..w |-> [y \in 1..Len(recto[x]) |->
                        PageM(recto[x][y], PerfectRotate(c, y - 1),
                              PerfectMargins(c, x - 1, y - 1))]],
                   BIND2ANGLE[c.bind]),
            Matrix([x \in 1..w |-> [y \in 1..Len(recto[x]) |->
                        PageM(evenodd2oddeven(recto[w - (x - 1)][y]), PerfectRotate(c, y - 1),
                              PerfectMargins(c, x - 1, y - 1))]],
                   BIND2ANGLE[c.bind])>>]

\* the number group_matrixes gives, on sheet g of a group of G, to base number m
GroupedNumber(m, g, G) ==
    LET outer == m + ((m + 2) \div 4) * 4 * (G - 1)
    IN  IF g = 0 THEN outer
        ELSE IF m % 4 <= 1 THEN outer + 2 * g
        ELSE outer - 2 * g

PerfectGroupMatrixes(c, total) ==
    LET b == PerfectBaseMatrix(c, total)
        G == fix_group(c, total)
    IN  IF b.raised # "" THEN b
        ELSE [raised |-> "", mats |-> [k \in 1..(2 * G) |->
            LET matrix == b.mats[((k - 1) % 2) + 1]
                g == (k - 1) \div 2
            IN  Matrix([x \in 1..Width(matrix) |-> [y \in 1..Height(matrix) |->
                    [matrix[x][y] EXCEPT !.number = GroupedNumber(@, g, G)]]], 0)]]

PerfectMatrixes(c, n) ==
    LET pages_per_group == 2 * c.signature[1] * c.signature[2] * fix_group(c, n)
        gm == PerfectGroupMatrixes(c, n)
    IN  IF n % pages_per_group # 0
        THEN [raised |-> "AssertionError", mats |-> <<>>]
        ELSE IF gm.raised # "" THEN gm
        ELSE [raised |-> "", mats |-> stack_matrixes(gm.mats, pages_per_group,
                                                     n \div pages_per_group)]

(***************************************************************************)
(* The impositor object: dispatch on the concrete class                    *)
(***************************************************************************)
BlankPageNumber(c, source) ==
    CASE c.scheme \in {"cards", "wire"} -> CardsBlankPageNumber(c, source)
      [] c.scheme = "cutstackfold" -> CutStackFoldBlankPageNumber(c, source)
      [] c.scheme = "copycutfold" -> CopyCutFoldBlankPageNumber(source)
      [] c.scheme = "onepagezine" -> ZineBlankPageNumber(source)
      [] c.scheme = "perfect" -> PerfectBlankPageNumber(c, source)

\* matrixes(n) on an object whose self.group is g:
\* [raised, mats, group] with group the value of self.group afterwards
Matrixes(c, g, n) ==
    CASE c.scheme = "cards" -> [group |-> g] @@ CardsMatrixes(c, n)
      [] c.scheme = "wire" -> [group |-> g] @@ WireMatrixes(c, n)
      [] c.scheme = "cutstackfold" -> CutStackFoldMatrixes(c, g, n)
      [] c.scheme = "copycutfold" -> CopyCutFoldMatrixes(c, g, n)
      [] c.scheme = "onepagezine" -> [group |-> g] @@ ZineMatrixes(c, n)
      [] c.scheme = "perfect" -> [group |-> g] @@ PerfectMatrixes(c, n)

(***************************************************************************)
(* Constructor arguments                                                   *)
(***************************************************************************)
nocreep == [slope |-> 0, yintercept |-> 0]

Creeps == {nocreep, [slope |-> 2, yintercept |-> 0]}

\* <<imargin, omargin>>: no margin, output margins only (four different ones), both
Layouts == {<<0, Margins1(0)>>, <<0, Margins(2, 4, 6, 8)>>, <<2, Margins(2, 4, 6, 8)>>}

Signatures == (1..MaxW) \X (1..MaxH)

Groups == 0..MaxGroup

RECURSIVE FoldsOfLen(_)
FoldsOfLen(k) ==
    IF k = 0 THEN {<<>>}
    ELSE {<<f>> \o t : f \in {"h", "v"}, t \in FoldsOfLen(k - 1)}

FoldStrings == UNION {FoldsOfLen(k) : k \in 0..MaxFolds}

Config(scheme, signature, g, folds, bind, imargin, omargin, creep) ==
    [scheme |-> scheme, signature |-> signature, group |-> g, folds |-> folds,
     bind |-> bind, imargin |-> imargin, omargin |-> omargin, creep |-> creep,
     last |-> 0, mark |-> {}]

\* CardsImpositor and WireImpositor: imargin, omargin, signature
CardsConfigs ==
    {Config(s, sig, 0, <<>>, "left", lay[1], lay[2], nocreep) :
        s \in {"cards", "wire"}, sig \in Signatures, lay \in Layouts}

\* CutStackFoldImpositor and CopyCutFoldImpositor: these and bind, creep, group
FoldConfigs ==
    {Config(s, sig, g, <<>>, b, lay[1], lay[2], cr) :
        s \in {"cutstackfold", "copycutfold"}, sig \in Signatures, g \in Groups,
        b \in Binds, lay \in Layouts, cr \in Creeps}

\* OnePageZineImpositor: omargin, bind
ZineConfigs ==
    {Config("onepagezine", <<4, 2>>, 0, <<>>, b, 0, lay[2], nocreep) :
        b \in Binds, lay \in Layouts}

\* PerfectImpositor: folds, imargin, omargin, bind, group
PerfectConfigs ==
    {Config("perfect", PerfectSignature(f), g, f, b, lay[1], lay[2], nocreep) :
        f \in FoldStrings, g \in Groups, b \in Binds, lay \in Layouts}

Configs == CardsConfigs \cup FoldConfigs \cup ZineConfigs \cup PerfectConfigs

(***************************************************************************)
(* Matrix generation on its own: blank_page_number(n), then                *)
(* matrixes(n + blank_page_number(n)), on a freshly constructed impositor  *)
(***************************************************************************)
InitM ==
    /\ cfg \in Configs
    /\ group = cfg.group
    /\ pc = "constructed"
    /\ files = <<>>
    /\ blank_number = 0
    /\ blank_position = 0
    /\ pages = 0
    /\ mats = <<>>
    /\ base_mats = <<>>
    /\ group_mats = <<>>
    /\ raised = ""
    /\ mi = 0
    /\ si = 0
    /\ destpage = -1
    /\ calls = <<>>
    /\ reader_open = FALSE
    /\ writer_open = FALSE
    /\ saved = FALSE
    /\ invoked = {}
    /\ heap = <<>>
    /\ objs = <<>>
    /\ op = [name |-> "none"]
    /\ fit = [source |-> <<>>, dest |-> <<>>]
    /\ segments = <<>>
    /\ cli = <<>>
    /\ legacy = <<>>

\* blank_page_number(n): the padded count n + b is what matrixes will be given
CallBlankPageNumber(n) ==
    /\ pc = "constructed"
    /\ blank_number' = BlankPageNumber(cfg, n)
    /\ pages' = n + BlankPageNumber(cfg, n)
    /\ pc' = "padded"
    /\ UNCHANGED <<cfg, group, files, blank_position, mats, base_mats, group_mats, raised, mi, si,
                   destpage, calls, reader_open, writer_open, saved>>
    /\ UNCHANGED <<invoked, heap, objs, op, fit, segments, cli, legacy>>

CallMatrixes ==
    /\ pc = "padded"
    /\ \E r \in {Matrixes(cfg, group, pages)} :
           /\ mats' = r.mats
           /\ raised' = r.raised
           /\ group' = r.group
    /\ pc' = "yielded"
    /\ UNCHANGED <<cfg, files, blank_number, blank_position, pages, base_mats, group_mats, mi, si,
                   destpage, calls, reader_open, writer_open, saved>>
    /\ UNCHANGED <<invoked, heap, objs, op, fit, segments, cli, legacy>>

\* PerfectImpositor.base_matrix(pages) called on its own
CallBaseMatrix ==
    /\ pc = "yielded"
    /\ cfg.scheme = "perfect"
    /\ \E r \in {PerfectBaseMatrix(cfg, pages)} :
           /\ base_mats' = r.mats
           /\ raised' = r.raised
    /\ pc' = "base_yielded"
    /\ UNCHANGED <<cfg, group, files, blank_number, blank_position, pages, mats, group_mats,
                   mi, si, destpage, calls, reader_open, writer_open, saved>>
    /\ UNCHANGED <<invoked, heap, objs, op, fit, segments, cli, legacy>>

\* PerfectImpositor.group_matrixes(pages) called on its own
CallGroupMatrixes ==
    /\ pc = "base_yielded"
    /\ \E r \in {PerfectGroupMatrixes(cfg, pages)} :
           /\ group_mats' = r.mats
           /\ raised' = r.raised
    /\ pc' = "group_yielded"
    /\ UNCHANGED <<cfg, group, files, blank_number, blank_position, pages, mats, base_mats,
                   mi, si, destpage, calls, reader_open, writer_open, saved>>
    /\ UNCHANGED <<invoked, heap, objs, op, fit, segments, cli, legacy>>

\* matrixes(n) called once more on the same impositor object, with the same
\* or twice the page count (first calls of up to half of MaxPages);
\* self.group is what the first call left
CallMatrixesAgain(n) ==
    /\ pc = "yielded"
    /\ raised = ""
    /\ 2 * pages <= MaxPages
    /\ \E r \in {Matrixes(cfg, group, n)} :
           /\ mats' = r.mats
           /\ raised' = r.raised
           /\ group' = r.group
    /\ pages' = n
    /\ pc' = "yielded_again"
    /\ UNCHANGED <<cfg, files, blank_number, blank_position, base_mats, group_mats, mi, si,
                   destpage, calls, reader_open, writer_open, saved>>
    /\ UNCHANGED <<invoked, heap, objs, op, fit, segments, cli, legacy>>

NextM ==
    \/ \E n \in 1..MaxPages : CallBlankPageNumber(n)
    \/ CallMatrixes
    \/ \E n \in {pages, 2 * pages} : CallMatrixesAgain(n)
    \/ CallBaseMatrix
    \/ CallGroupMatrixes

SpecM == InitM /\ [][NextM]_vars

(***************************************************************************)
(* pdf.py: Reader                                                          *)
(***************************************************************************)
RECURSIVE SumLen(_)
\* sum(len(file) for file in self.files)
SumLen(fs) == IF fs = <<>> THEN 0 ELSE fs[1] + SumLen(Tail(fs))

\* what Reader.__getitem__ returns: None, or page `index` of document `file`
None == [kind |-> "None"]

FilePage(f, i) == [kind |-> "page", file |-> f, index |-> i]

RECURSIVE FindPage(_, _, _, _)
\* the loop over self.files, at document f with `cumulative` pages before it;
\* falling off the end of the loop returns None
FindPage(fs, key, f, cumulative) ==
    IF f > Len(fs) THEN None
    ELSE IF key < cumulative + fs[f] THEN FilePage(f, key - cumulative)
    ELSE FindPage(fs, key, f + 1, cumulative + fs[f])

\* __getitem__ without `key -= self._blank_number` after the blank window
ReaderGetItemNoShift(fs, bn, bp, key) ==
    IF bp <= key /\ key < bp + bn THEN None ELSE FindPage(fs, key, 1, 0)

ReaderGetItem(fs, bn, bp, key) ==
    IF bp <= key /\ key < bp + bn
    THEN None
    ELSE FindPage(fs, IF key >= bp + bn THEN key - bn ELSE key, 1, 0)

\* Reader.__len__
ReaderLen(fs, bn) == SumLen(fs) + bn

\* Reader.size: every page of the sources has this cropbox
SourceSize == <<10, 14>>

(***************************************************************************)
(* common.py: Matrix.topleft and Matrix.pagesize                           *)
(***************************************************************************)
\* footprint of a slot along x and along y
SlotWidth(p, size) == IF p.rotate \in {90, 270} THEN size[2] ELSE size[1]

SlotHeight(p, size) == IF p.rotate \in {90, 270} THEN size[1] ELSE size[2]

RECURSIVE LeftOf(_, _, _, _)
\* the loop `for i in range(x)` of topleft
LeftOf(m, x, y, size) ==
    IF x = 0 THEN 0
    ELSE LeftOf(m, x - 1, y, size)
         + At(m, x - 1, y).left + At(m, x - 1, y).right + SlotWidth(At(m, x - 1, y), size)

RECURSIVE TopOf(_, _, _, _)
\* the loop `for j in range(y)` of topleft
TopOf(m, x, y, size) ==
    IF y = 0 THEN 0
    ELSE TopOf(m, x, y - 1, size)
         + At(m, x, y - 1).top + At(m, x, y - 1).bottom + SlotHeight(At(m, x, y - 1), size)

Topleft(m, coord, size) ==
    <<LeftOf(m, coord[1], coord[2], size) + At(m, coord[1], coord[2]).left,
      TopOf(m, coord[1], coord[2], size) + At(m, coord[1], coord[2]).top>>

SetMax(S) == CHOOSE v \in S : \A u \in S : u <= v

\* line of row y: LeftOf over the whole width; row of column x: TopOf over the height
Pagesize(m, size) ==
    <<SetMax({LeftOf(m, Width(m), y, size) : y \in 0..(Height(m) - 1)}),
      SetMax({TopOf(m, x, Height(m), size) : x \in 0..(Width(m) - 1)})>>

\* sizes of source pages given to topleft and pagesize: portrait, landscape
SourceSizes == {<<10, 14>>, <<14, 10>>}

(***************************************************************************)
(* common.py: AbstractImpositor.impose, one action per step of the job     *)
(***************************************************************************)
MaxLast == 2

\* the documents given to impose, as their page counts
JobFiles ==
    {<<n>> : n \in 0..MaxJobPages}
    \cup {f \in (1..MaxJobPages) \X (1..MaxJobPages) : f[1] + f[2] <= MaxJobPages}

JobLayouts == {<<0, Margins1(0)>>, <<2, Margins(2, 4, 6, 8)>>}

JobSignatures == {<<1, 1>>, <<2, 1>>, <<1, 2>>}

JobFolds == {<<>>, <<"h">>, <<"h", "v">>, <<"h", "h", "h">>}

JobBaseConfigs ==
    {Config(s, sig, 0, <<>>, "left", lay[1], lay[2], nocreep) :
        s \in {"cards", "wire"}, sig \in JobSignatures, lay \in JobLayouts}
    \cup {Config(s, sig, g, <<>>, b, lay[1], lay[2], nocreep) :
        s \in {"cutstackfold", "copycutfold"}, sig \in JobSignatures, g \in 0..2,
        b \in {"left", "top"}, lay \in JobLayouts}
    \cup {Config("onepagezine", <<4, 2>>, 0, <<>>, b, 0, lay[2], nocreep) :
        b \in {"left", "top"}, lay \in JobLayouts}
    \cup {Config("perfect", PerfectSignature(f), g, f, b, lay[1], lay[2], nocreep) :
        f \in JobFolds, g \in 0..2, b \in {"left", "top"}, lay \in JobLayouts}

JobConfigs ==
    {[c EXCEPT !.last = l, !.mark = mk] :
        c \in JobBaseConfigs, l \in 0..MaxLast, mk \in {{}, {"crop", "bind"}}}

Init ==
    /\ cfg \in JobConfigs
    /\ files \in JobFiles
    /\ group = cfg.group
    /\ pc = "start"
    /\ blank_number = 0
    /\ blank_position = 0
    /\ pages = 0
    /\ mats = <<>>
    /\ base_mats = <<>>
    /\ group_mats = <<>>
    /\ raised = ""
    /\ mi = 0
    /\ si = 0
    /\ destpage = -1
    /\ calls = <<>>
    /\ reader_open = FALSE
    /\ writer_open = FALSE
    /\ saved = FALSE
    /\ invoked = {}
    /\ heap = <<>>
    /\ objs = <<>>
    /\ op = [name |-> "none"]
    /\ fit = [source |-> <<>>, dest |-> <<>>]
    /\ segments = <<>>
    /\ cli = <<>>
    /\ legacy = <<>>

\* leaving both with-blocks on an exception raised inside them: Writer.__exit__
\* with an exc_type does not save and closes the document, then the exception
\* goes through the generator of read and Reader.__exit__ closes every document
Unwind(exception) ==
    /\ raised' = exception
    /\ pc' = "raised"
    /\ writer_open' = FALSE
    /\ reader_open' = FALSE
    /\ invoked' = invoked \cup {"Writer.__exit__", "Reader.__exit__"}

\* a call of the PDF library that fails: what the log keeps of it
Failed(log, step) == Append(log, [op |-> "raise", at |-> step])

\* read without `if len(reader) == 0: raise UserError(...)`
ReadNoEmptyCheck ==
    /\ pc = "start"
    /\ blank_number' = BlankPageNumber(cfg, ReaderLen(files, 0))
    /\ blank_position' = ReaderLen(files, 0) - cfg.last
    /\ pages' = ReaderLen(files, BlankPageNumber(cfg, ReaderLen(files, 0)))
    /\ pc' = "read"
    /\ reader_open' = TRUE
    /\ invoked' = invoked \cup {"Reader", "blank_page_number"}
    /\ UNCHANGED <<cfg, group, files, mats, base_mats, group_mats, mi, si, destpage, calls,
                   writer_open, saved, raised>>
    /\ UNCHANGED <<heap, objs, op, fit, segments, cli, legacy>>

\* self.read(files): pdf.Reader(files) opens the documents and the Reader is
\* entered; an empty input raises UserError, which leaves the with-block (the
\* documents are closed, no Writer was created); otherwise
\* set_final_blank_pages(blank_page_number(len), len - last)
Read ==
    /\ pc = "start"
    /\ IF ReaderLen(files, 0) = 0
       THEN /\ raised' = "UserError"
            /\ pc' = "raised"
            /\ reader_open' = FALSE
            /\ invoked' = invoked \cup {"Reader", "Reader.__exit__"}
            /\ UNCHANGED <<blank_number, blank_position, pages>>
       ELSE /\ blank_number' = BlankPageNumber(cfg, ReaderLen(files, 0))
            /\ blank_position' = ReaderLen(files, 0) - cfg.last
            /\ pages' = ReaderLen(files, BlankPageNumber(cfg, ReaderLen(files, 0)))
            /\ pc' = "read"
            /\ reader_open' = TRUE
            /\ invoked' = invoked \cup {"Reader", "blank_page_number"}
            /\ UNCHANGED raised
    /\ UNCHANGED <<cfg, group, files, mats, base_mats, group_mats, mi, si, destpage, calls,
                   writer_open, saved>>
    /\ UNCHANGED <<heap, objs, op, fit, segments, cli, legacy>>

\* self.write(output): pdf.Writer(output) creates the empty output document
Write ==
    /\ pc = "read"
    /\ writer_open' = TRUE
    /\ invoked' = invoked \cup {"Writer"}
    /\ pc' = "written"
    /\ UNCHANGED <<cfg, group, files, blank_number, blank_position, pages, mats, base_mats,
                   group_mats, raised, mi, si, destpage, calls, reader_open, saved>>
    /\ UNCHANGED <<heap, objs, op, fit, segments, cli, legacy>>

\* for matrix in self.matrixes(len(reader)): an exception of the generator leaves
\* both with-blocks
StartMatrixes ==
    /\ pc = "written"
    /\ \E r \in {Matrixes(cfg, group, pages)} :
           /\ group' = r.group
           /\ mats' = r.mats
           /\ IF r.raised # ""
              THEN /\ Unwind(r.raised)
                   /\ mi' = mi
              ELSE /\ pc' = IF r.mats = <<>> THEN "metadata" ELSE "matrix"
                   /\ mi' = 1
                   /\ raised' = r.raised
                   /\ invoked' = invoked \cup {"matrixes"}
                   /\ UNCHANGED <<reader_open, writer_open>>
    /\ UNCHANGED <<cfg, files, blank_number, blank_position, pages, base_mats, group_mats, si,
                   destpage, calls, saved>>
    /\ UNCHANGED <<heap, objs, op, fit, segments, cli, legacy>>

\* number of pages of the output document so far
NewPages == Cardinality({i \in 1..Len(calls) : calls[i].op = "new_page"})

\* destpage = writer.new_page(*matrix.pagesize(reader.size)); the library call
\* returns the number of the new page or raises
NewPage ==
    /\ pc = "matrix"
    /\ \E ok \in BOOLEAN :
        IF ok
        THEN /\ calls' = Append(calls, [op |-> "new_page",
                                        size |-> Pagesize(mats[mi], SourceSize),
                                        number |-> NewPages])
             /\ destpage' = NewPages
             /\ si' = 1
             /\ pc' = "slots"
             /\ UNCHANGED <<raised, reader_open, writer_open, invoked>>
        ELSE /\ calls' = Failed(calls, "new_page")
             /\ Unwind("RuntimeError")
             /\ UNCHANGED <<destpage, si>>
    /\ UNCHANGED <<cfg, group, files, blank_number, blank_position, pages, mats, base_mats,
                   group_mats, mi, saved>>
    /\ UNCHANGED <<heap, objs, op, fit, segments, cli, legacy>>

\* one turn of `for x, y in matrix.coordinates()`: the slot is skipped when
\* reader[number] is None, else the source page is inserted, which the library
\* does or refuses with an exception
Slot ==
    /\ pc = "slots"
    /\ \E ok \in BOOLEAN :
        LET coord == Coordinates(mats[mi])[si]
            page == At(mats[mi], coord[1], coord[2])
            sourcepage == ReaderGetItem(files, blank_number, blank_position, page.number)
        IN  IF sourcepage # None /\ ~ok
            THEN /\ calls' = Failed(calls, "insert")
                 /\ Unwind("RuntimeError")
                 /\ si' = si
            ELSE /\ ok
                 /\ calls' = IF sourcepage = None
                             THEN calls
                             ELSE Append(calls, [op |-> "insert", number |-> destpage,
                                                 source |-> sourcepage,
                                                 topleft |-> Topleft(mats[mi], coord, SourceSize),
                                                 rotate |-> page.rotate,
                                                 matrix |-> mi, coord |-> coord])
                 /\ IF si < Len(Coordinates(mats[mi]))
                    THEN /\ si' = si + 1
                         /\ pc' = pc
                    ELSE /\ si' = si
                         /\ pc' = "marks"
                 /\ UNCHANGED <<raised, reader_open, writer_open, invoked>>
    /\ UNCHANGED <<cfg, group, files, blank_number, blank_position, pages, mats, base_mats,
                   group_mats, mi, destpage, saved>>
    /\ UNCHANGED <<heap, objs, op, fit, segments, cli, legacy>>

\* the marks of one output page drawn through the writer, crop marks first;
\* the log keeps one entry for the crop marks of the page and one for its
\* bind marks
WriterDrawMarks(log, mark, number) ==
    log \o (IF "crop" \in mark THEN <<[op |-> "crop_marks", number |-> number]>> ELSE <<>>)
        \o (IF "bind" \in mark THEN <<[op |-> "bind_marks", number |-> number]>> ELSE <<>>)

\* Writer.set_metadata(reader): the source's metadata is copied to the output
WriterSetMetadata(log) == Append(log, [op |-> "set_metadata"])

\* the loop body with writer.set_metadata(reader) indented into it
MarksThenMetadata ==
    /\ pc = "marks"
    /\ \E ok \in BOOLEAN :
        IF cfg.mark # {} /\ ~ok
        THEN /\ calls' = Failed(calls, "marks")
             /\ Unwind("RuntimeError")
             /\ mi' = mi
        ELSE /\ ok
             /\ calls' = WriterSetMetadata(WriterDrawMarks(calls, cfg.mark, destpage))
             /\ IF mi < Len(mats)
                THEN /\ mi' = mi + 1
                     /\ pc' = "matrix"
                ELSE /\ mi' = mi
                     /\ pc' = "metadata"
             /\ UNCHANGED <<raised, reader_open, writer_open, invoked>>
    /\ UNCHANGED <<cfg, group, files, blank_number, blank_position, pages, mats, base_mats,
                   group_mats, si, destpage, saved>>
    /\ UNCHANGED <<heap, objs, op, fit, segments, cli, legacy>>

\* the end of the body of the matrix loop: the crop marks if "crop" in self.mark,
\* the bind marks if "bind" in self.mark (drawing them can raise), and on to the
\* next matrix; with mark = [] (the default) nothing is called
Marks ==
    /\ pc = "marks"
    /\ \E ok \in BOOLEAN :
        IF cfg.mark # {} /\ ~ok
        THEN /\ calls' = Failed(calls, "marks")
             /\ Unwind("RuntimeError")
             /\ mi' = mi
        ELSE /\ ok
             /\ calls' = WriterDrawMarks(calls, cfg.mark, destpage)
             /\ IF mi < Len(mats)
                THEN /\ mi' = mi + 1
                     /\ pc' = "matrix"
                ELSE /\ mi' = mi
                     /\ pc' = "metadata"
             /\ UNCHANGED <<raised, reader_open, writer_open, invoked>>
    /\ UNCHANGED <<cfg, group, files, blank_number, blank_position, pages, mats, base_mats,
                   group_mats, si, destpage, saved>>
    /\ UNCHANGED <<heap, objs, op, fit, segments, cli, legacy>>

\* writer.set_metadata(reader), which can raise
SetMetadata ==
    /\ pc = "metadata"
    /\ \E ok \in BOOLEAN :
        IF ok
        THEN /\ calls' = WriterSetMetadata(calls)
             /\ pc' = "exit"
             /\ UNCHANGED <<raised, reader_open, writer_open, invoked>>
        ELSE /\ calls' = Failed(calls, "set_metadata")
             /\ Unwind("RuntimeError")
    /\ UNCHANGED <<cfg, group, files, blank_number, blank_position, pages, mats, base_mats,
                   group_mats, mi, si, destpage, saved>>
    /\ UNCHANGED <<heap, objs, op, fit, segments, cli, legacy>>

\* leaving the with-blocks normally: Writer.__exit__ saves, then closes the
\* document, then Reader.__exit__ closes every source document.  When
\* self.doc.save raises (the output cannot be written), the self.doc.close()
\* after it is not reached; the exception still goes through Reader.__exit__.
Exit ==
    /\ pc = "exit"
    /\ invoked' = invoked \cup {"Writer.__exit__", "Reader.__exit__"}
    /\ reader_open' = FALSE
    /\ \E ok \in BOOLEAN :
        IF ok
        THEN /\ saved' = TRUE
             /\ writer_open' = FALSE
             /\ pc' = "done"
             /\ UNCHANGED <<raised, calls>>
        ELSE /\ calls' = Failed(calls, "save")
             /\ raised' = "RuntimeError"
             /\ pc' = "raised"
             /\ UNCHANGED <<saved, writer_open>>
    /\ UNCHANGED <<cfg, group, files, blank_number, blank_position, pages, mats, base_mats,
                   group_mats, mi, si, destpage>>
    /\ UNCHANGED <<heap, objs, op, fit, segments, cli, legacy>>

Next ==
    \/ Read
    \/ Write
    \/ StartMatrixes
    \/ NewPage
    \/ Slot
    \/ Marks
    \/ SetMetadata
    \/ Exit

Spec == Init /\ [][Next]_vars

(***************************************************************************)
(* common.py: Matrix objects and their Page objects.  A Matrix holds       *)
(* references to mutable Page objects: heap[a] is the Page at address a,   *)
(* and a Matrix object is the grid of the addresses of its pages.          *)
(***************************************************************************)
MaxObjs == 3

MaxStep == 1

MaxWrites == 1

SlotsOfGrid(g) == (0..(Len(g) - 1)) \X (0..(Len(g[1]) - 1))

Addresses(g) == {g[x][y] : x \in 1..Len(g), y \in 1..Len(g[1])}

\* the matrix read through the object: self[x, y] for every slot
Deref(h, g) == [x \in 1..Len(g) |-> [y \in 1..Len(g[x]) |-> h[g[x][y]]]]

\* the pages of m created as new objects, column after column
Alloc(h, m) ==
    [heap |-> h \o [k \in 1..(Width(m) * Height(m)) |->
                      m[((k - 1) \div Height(m)) + 1][((k - 1) % Height(m)) + 1]],
     grid |-> [x \in 1..Width(m) |-> [y \in 1..Height(m) |->
                      Len(h) + (x - 1) * Height(m) + y]]]

\* copy() handing out the pages of self instead of dataclasses.replace(...)
MatrixCopyShared(h, g) == [heap |-> h, grid |-> g]

\* Matrix.copy: dataclasses.replace makes a new Page of every slot
MatrixCopy(h, g) == Alloc(h, Copy(Deref(h, g)))

\* Matrix.stack: dataclasses.replace(..., number=...) makes a new Page of every slot
MatrixStack(h, g, number) == Alloc(h, Stack(Deref(h, g), number))

\* the impositors whose base matrices are copied, stacked and written to
ObjConfigs ==
    {Config("perfect", <<1, 1>>, 1, <<"h">>, "top", 2, Margins(2, 4, 6, 8), nocreep),
     Config("copycutfold", <<1, 1>>, 2, <<>>, "right", 2, Margins(2, 4, 6, 8),
            [slope |-> 2, yintercept |-> 0])}

BaseMatrixOf(c) ==
    CASE c.scheme = "perfect" -> PerfectBaseMatrix(c, 4).mats
      [] c.scheme = "copycutfold" -> CopyCutFoldBaseMatrix(c, 4 * c.group)

\* values a slot field is overwritten with
Written == [number |-> 9, rotate |-> 270, left |-> 5]

NoOp == [name |-> "none", obj |-> 0, from |-> 0, args |-> <<>>, root |-> <<>>, writes |-> 0]

InitO ==
    /\ cfg \in ObjConfigs
    /\ \E k \in 1..Len(BaseMatrixOf(cfg)) :
        /\ heap = Alloc(<<>>, BaseMatrixOf(cfg)[k]).heap
        /\ objs = <<Alloc(<<>>, BaseMatrixOf(cfg)[k]).grid>>
    /\ op = [NoOp EXCEPT !.name = "new", !.obj = 1]
    /\ group = cfg.group
    /\ pc = "objects"
    /\ files = <<>>
    /\ blank_number = 0
    /\ blank_position = 0
    /\ pages = 0
    /\ mats = <<>>
    /\ base_mats = <<>>
    /\ group_mats = <<>>
    /\ raised = ""
    /\ mi = 0
    /\ si = 0
    /\ destpage = -1
    /\ calls = <<>>
    /\ reader_open = FALSE
    /\ writer_open = FALSE
    /\ saved = FALSE
    /\ invoked = {}
    /\ fit = [source |-> <<>>, dest |-> <<>>]
    /\ segments = <<>>
    /\ cli = <<>>
    /\ legacy = <<>>

jobvars == <<cfg, group, pc, files, blank_number, blank_position, pages, mats, base_mats,
             group_mats, raised, mi, si, destpage, calls, reader_open, writer_open, saved,
             invoked, fit, segments, cli, legacy>>

\* objs[i].copy()
DoCopy(i) ==
    /\ pc = "objects"
    /\ Len(objs) < MaxObjs
    /\ \E r \in {MatrixCopy(heap, objs[i])} :
        /\ heap' = r.heap
        /\ objs' = Append(objs, r.grid)
    /\ op' = [NoOp EXCEPT !.name = "copy", !.obj = Len(objs) + 1, !.from = i,
                          !.writes = op.writes]
    /\ UNCHANGED jobvars

\* objs[i].stack(number); args and root remember the stack just before, if
\* this one is applied to its result
DoStack(i, number) ==
    /\ pc = "objects"
    /\ Len(objs) < MaxObjs
    /\ \E r \in {MatrixStack(heap, objs[i], number)} :
        /\ heap' = r.heap
        /\ objs' = Append(objs, r.grid)
    /\ op' = IF op.name = "stack" /\ op.obj = i
             THEN [op EXCEPT !.obj = Len(objs) + 1, !.from = i,
                             !.args = <<op.args[Len(op.args)], number>>,
                             !.root = Deref(heap, objs[op.from])]
             ELSE [NoOp EXCEPT !.name = "stack", !.obj = Len(objs) + 1, !.from = i,
                               !.args = <<number>>, !.root = Deref(heap, objs[i]),
                               !.writes = op.writes]
    /\ UNCHANGED jobvars

\* objs[i][coord].<field> = value
DoSet(i, coord, field) ==
    /\ pc = "objects"
    /\ op.writes < MaxWrites
    /\ heap' = [heap EXCEPT ![objs[i][coord[1] + 1][coord[2] + 1]][field] = Written[field]]
    /\ op' = [NoOp EXCEPT !.name = "set", !.obj = i, !.writes = op.writes + 1]
    /\ UNCHANGED <<objs, jobvars>>

\* insert_sheets((objs[i],), sheets, 4 * group, 2) of copycutfold: every slot of
\* objs[i] gets its creep and its new number, in place
DoInsertSheets(i, sheets) ==
    /\ pc = "objects"
    /\ cfg.scheme = "copycutfold"
    /\ op.writes < MaxWrites
    /\ \E m \in {InsertSheet(cfg, Deref(heap, objs[i]), sheets, 4 * cfg.group, 2)} :
        heap' = [a \in 1..Len(heap) |->
                    IF a \in Addresses(objs[i])
                    THEN LET s == CHOOSE s \in SlotsOfGrid(objs[i]) :
                                     objs[i][s[1] + 1][s[2] + 1] = a
                         IN  At(m, s[1], s[2])
                    ELSE heap[a]]
    /\ op' = [NoOp EXCEPT !.name = "insert_sheets", !.obj = i, !.writes = op.writes + 1]
    /\ UNCHANGED <<objs, jobvars>>

NextO ==
    \/ \E i \in 1..Len(objs) : DoCopy(i)
    \/ \E i \in 1..Len(objs), number \in {-MaxStep, 0, MaxStep} : DoStack(i, number)
    \/ \E i \in 1..Len(objs) : \E coord \in SlotsOfGrid(objs[i]) :
          \E field \in DOMAIN Written : DoSet(i, coord, field)
    \/ \E i \in 1..Len(objs), sheets \in 0..1 : DoInsertSheets(i, sheets)

SpecO == InitO /\ [][NextO]_vars

(***************************************************************************)
(* common.py: compute_signature.  Lengths are integers of one unit; the    *)
(* quotient of two lengths is a float in the code, so the rounding to six  *)
(* decimals is computed on the exact quotient.                             *)
(***************************************************************************)
\* 1 / (0.5 * 10^-6): round(x, 6) goes up to the next integer when x is
\* within 1/RoundingScale below it
RoundingScale == 2000000

\* math.floor(round(d / s, 6)); the products stay within 32 bits.  A quotient
\* exactly half a unit of the sixth decimal below an integer is not among
\* the inputs (the float division decides it either way).
FloorRound(d, s) ==
    IF d % s # 0 /\ s - (d % s) <= 1000 /\ (s - (d % s)) * RoundingScale <= s
    THEN (d \div s) + 1
    ELSE d \div s

\* compute_signature that floors the quotients without rounding them
ComputeSignatureExact(source, dest) ==
    LET notrotated == <<dest[1] \div source[1], dest[2] \div source[2]>>
        rotated == <<dest[2] \div source[1], dest[1] \div source[2]>>
    IN  IF (0 \in {notrotated[1], notrotated[2]}) /\ (0 \in {rotated[1], rotated[2]})
        THEN [raised |-> "UserError", signature |-> <<>>, rotated |-> FALSE]
        ELSE IF notrotated[1] * notrotated[2] > rotated[1] * rotated[2]
        THEN [raised |-> "", signature |-> notrotated, rotated |-> FALSE]
        ELSE [raised |-> "", signature |-> rotated, rotated |-> TRUE]

ComputeSignature(source, dest) ==
    LET notrotated == <<FloorRound(dest[1], source[1]), FloorRound(dest[2], source[2])>>
        rotated == <<FloorRound(dest[2], source[1]), FloorRound(dest[1], source[2])>>
    IN  IF (0 \in {notrotated[1], notrotated[2]}) /\ (0 \in {rotated[1], rotated[2]})
        THEN [raised |-> "UserError", signature |-> <<>>, rotated |-> FALSE]
        ELSE IF notrotated[1] * notrotated[2] > rotated[1] * rotated[2]
        THEN [raised |-> "", signature |-> notrotated, rotated |-> FALSE]
        ELSE [raised |-> "", signature |-> rotated, rotated |-> TRUE]

\* page lengths given to compute_signature
FitLengths == {50, 100, 210, 297, 2000000, 2000001}

InitF ==
    /\ \E source \in FitLengths \X FitLengths, dest \in FitLengths \X FitLengths :
        fit = [source |-> source, dest |-> dest, signature |-> <<>>, rotated |-> FALSE]
    /\ pc = "fit"
    /\ cfg = Config("cards", <<1, 1>>, 0, <<>>, "left", 0, Margins1(0), nocreep)
    /\ group = 0
    /\ files = <<>>
    /\ blank_number = 0
    /\ blank_position = 0
    /\ pages = 0
    /\ mats = <<>>
    /\ base_mats = <<>>
    /\ group_mats = <<>>
    /\ raised = ""
    /\ mi = 0
    /\ si = 0
    /\ destpage = -1
    /\ calls = <<>>
    /\ reader_open = FALSE
    /\ writer_open = FALSE
    /\ saved = FALSE
    /\ invoked = {}
    /\ heap = <<>>
    /\ objs = <<>>
    /\ op = NoOp
    /\ segments = <<>>
    /\ cli = <<>>
    /\ legacy = <<>>

\* signature, rotated = compute_signature(source, dest)
CallComputeSignature ==
    /\ pc = "fit"
    /\ \E r \in {ComputeSignature(fit.source, fit.dest)} :
        /\ raised' = r.raised
        /\ fit' = [fit EXCEPT !.signature = r.signature, !.rotated = r.rotated]
    /\ pc' = "fitted"
    /\ UNCHANGED <<cfg, group, files, blank_number, blank_position, pages, mats, base_mats,
                   group_mats, mi, si, destpage, calls, reader_open, writer_open, saved,
                   invoked, heap, objs, op, segments, cli, legacy>>

NextF == CallComputeSignature

SpecF == InitF /\ [][NextF]_vars

(***************************************************************************)
(* Crop marks: AbstractImpositor._crop_space and the crop_marks of the     *)
(* schemes.  A segment is <<point1, point2>>, a point is <<x, y>>.         *)
(***************************************************************************)
\* `left = right = bottom = top = 20`
CropDistance == 20

\* one side of _crop_space: 20, or half the margin if 20 > margin
CropInset(margin) ==
    IF CropDistance > margin THEN margin \div 2 ELSE CropDistance

\* _crop_space: `return left, right, bottom, top`
CropSpace(c) ==
    <<CropInset(c.omargin.left), CropInset(c.omargin.right),
      CropInset(c.omargin.bottom), CropInset(c.omargin.top)>>

\* the segments of rounds 0..n-1, each round yielding the tuple rounds[i]
Chain(rounds, n, each) ==
    [k \in 1..(n * each) |-> rounds[(k - 1) \div each][((k - 1) % each) + 1]]

\* the four segments of row y that cards, cutstackfold and perfect yield alike
\* in `for y in range(self.signature[1])`
CropRows(c, h, outputsize, inputsize, left, right) ==
    Chain([y \in 0..(h - 1) |->
        <<<< <<0, c.omargin.top + y * (inputsize[2] + c.imargin)>>,
             <<c.omargin.left - left, c.omargin.top + y * (inputsize[2] + c.imargin)>> >>,
          << <<0, c.omargin.top + (y + 1) * inputsize[2] + y * c.imargin>>,
             <<c.omargin.left - left,
               c.omargin.top + (y + 1) * inputsize[2] + y * c.imargin>> >>,
          << <<outputsize[1], c.omargin.top + y * (inputsize[2] + c.imargin)>>,
             <<outputsize[1] - c.omargin.right + right,
               c.omargin.top + y * (inputsize[2] + c.imargin)>> >>,
          << <<outputsize[1], c.omargin.top + (y + 1) * inputsize[2] + y * c.imargin>>,
             <<outputsize[1] - c.omargin.right + right,
               c.omargin.top + (y + 1) * inputsize[2] + y * c.imargin>> >> >>], h, 4)

\* the two vertical segments (from the top edge, from the bottom edge) at abscissa a
CropAt(c, a, outputsize, top, bottom) ==
    << << <<a, 0>>, <<a, c.omargin.top - top>> >>,
       << <<a, outputsize[2]>>, <<a, outputsize[2] - c.omargin.bottom + bottom>> >> >>

\* CardsImpositor.crop_marks (WireImpositor inherits it); `space` is what
\* _crop_space returned, unpacked as `left, right, top, bottom`
CardsCropMarks(c, outputsize, inputsize, space) ==
    LET left == space[1]
        right == space[2]
        top == space[3]
        bottom == space[4]
        a(x) == c.omargin.left + x * (inputsize[1] + c.imargin)
        b(x) == c.omargin.left + (x + 1) * inputsize[1] + x * c.imargin
    IN  Chain([x \in 0..(c.signature[1] - 1) |->
                <<CropAt(c, a(x), outputsize, top, bottom)[1],
                  CropAt(c, b(x), outputsize, top, bottom)[1],
                  CropAt(c, a(x), outputsize, top, bottom)[2],
                  CropAt(c, b(x), outputsize, top, bottom)[2]>>], c.signature[1], 4)
        \o CropRows(c, c.signature[2], outputsize, inputsize, left, right)

\* CutStackFoldImpositor.crop_marks
CutStackFoldCropMarks(c, total, outputsize, inputsize, space) ==
    LET left == space[1]
        right == space[2]
        top == space[3]
        bottom == space[4]
        maxcreep == CutStackFoldMaxCreep(c, total)
        a(x) == c.omargin.left + 2 * x * inputsize[1] + x * (c.imargin + maxcreep)
        b(x) == c.omargin.left + 2 * (x + 1) * inputsize[1] + x * c.imargin
                + (x + 1) * maxcreep
    IN  Chain([x \in 0..(c.signature[1] - 1) |->
                <<CropAt(c, a(x), outputsize, top, bottom)[1],
                  CropAt(c, a(x), outputsize, top, bottom)[2],
                  CropAt(c, b(x), outputsize, top, bottom)[1],
                  CropAt(c, b(x), outputsize, top, bottom)[2]>>], c.signature[1], 4)
        \o CropRows(c, c.signature[2], outputsize, inputsize, left, right)

\* PerfectImpositor.crop_marks: the input size is swapped for bind top or bottom
PerfectCropMarks(c, outputsize, sourcesize, space) ==
    LET left == space[1]
        right == space[2]
        top == space[3]
        bottom == space[4]
        inputsize == IF c.bind \in {"top", "bottom"}
                     THEN <<sourcesize[2], sourcesize[1]>> ELSE sourcesize
        a(x) == c.omargin.left + x * (2 * inputsize[1] + c.imargin)
        b(x) == c.omargin.left + (x + 1) * 2 * inputsize[1] + x * c.imargin
    IN  Chain([x \in 0..((c.signature[1] \div 2) - 1) |->
                <<CropAt(c, a(x), outputsize, top, bottom)[1],
                  CropAt(c, a(x), outputsize, top, bottom)[2],
                  CropAt(c, b(x), outputsize, top, bottom)[1],
                  CropAt(c, b(x), outputsize, top, bottom)[2]>>], c.signature[1] \div 2, 4)
        \o CropRows(c, c.signature[2], outputsize, inputsize, left, right)

\* OnePageZineImpositor.crop_marks
ZineCropMarks(c, outputsize, space) ==
    LET left == space[1]
        right == space[2]
        top == space[3]
        bottom == space[4]
        o == c.omargin
    IN  << << <<0, o.top>>, <<o.left - left, o.top>> >>,
           << <<o.left, 0>>, <<o.left, o.top - top>> >>,
           << <<outputsize[1], o.top>>, <<outputsize[1] - o.right + right, o.top>> >>,
           << <<outputsize[1] - o.right, 0>>, <<outputsize[1] - o.right, o.top - top>> >>,
           << <<0, outputsize[2] - o.top>>, <<o.left - left, outputsize[2] - o.top>> >>,
           << <<o.left, outputsize[2]>>, <<o.left, outputsize[2] - o.bottom + bottom>> >>,
           << <<outputsize[1], outputsize[2] - o.bottom>>,
              <<outputsize[1] - o.right + right, outputsize[2] - o.bottom>> >>,
           << <<outputsize[1] - o.right, outputsize[2]>>,
              <<outputsize[1] - o.right, outputsize[2] - o.bottom + bottom>> >> >>

\* self.crop_marks(destpage, len(reader), matrix, destpage_size, reader.size)
CropMarks(c, total, outputsize, inputsize) ==
    CASE c.scheme \in {"cards", "wire"} ->
            CardsCropMarks(c, outputsize, inputsize, CropSpace(c))
      [] c.scheme \in {"cutstackfold", "copycutfold"} ->
            CutStackFoldCropMarks(c, total, outputsize, inputsize, CropSpace(c))
      [] c.scheme = "onepagezine" -> ZineCropMarks(c, outputsize, CropSpace(c))
      [] c.scheme = "perfect" -> PerfectCropMarks(c, outputsize, inputsize, CropSpace(c))

(***************************************************************************)
(* Crop marks of one output page: the impositor is constructed, matrixes   *)
(* is called with the padded page count, and crop_marks is called for one  *)
(* of the matrices as impose calls it                                      *)
(***************************************************************************)
MaxCropPages == 8

\* <<imargin, omargin>>: no margin; margins of 20 and more; four different
\* margins below 20, with the larger ones first and last
CropLayouts ==
    {<<0, Margins1(0)>>, <<0, Margins(20, 40, 30, 24)>>,
     <<2, Margins(2, 4, 6, 8)>>, <<2, Margins(8, 6, 4, 2)>>, <<0, Margins(6, 8, 2, 30)>>}

CropConfigs ==
    {Config(s, sig, 0, <<>>, "left", lay[1], lay[2], nocreep) :
        s \in {"cards", "wire"}, sig \in Signatures, lay \in CropLayouts}
    \cup {Config("cutstackfold", sig, 0, <<>>, "left", lay[1], lay[2], cr) :
        sig \in Signatures, lay \in CropLayouts, cr \in Creeps}
    \cup {Config("onepagezine", <<4, 2>>, 0, <<>>, b, 0, lay[2], nocreep) :
        b \in {"left", "top"}, lay \in CropLayouts}
    \cup {Config("perfect", PerfectSignature(f), 0, f, b, lay[1], lay[2], nocreep) :
        f \in {<<"h">>, <<"h", "v">>, <<"v", "h">>, <<"h", "h">>},
        b \in {"left", "top"}, lay \in CropLayouts}

InitK ==
    /\ cfg \in CropConfigs
    /\ group = cfg.group
    /\ pc = "constructed"
    /\ files = <<>>
    /\ blank_number = 0
    /\ blank_position = 0
    /\ pages = 0
    /\ mats = <<>>
    /\ base_mats = <<>>
    /\ group_mats = <<>>
    /\ raised = ""
    /\ mi = 0
    /\ si = 0
    /\ destpage = -1
    /\ calls = <<>>
    /\ reader_open = FALSE
    /\ writer_open = FALSE
    /\ saved = FALSE
    /\ invoked = {}
    /\ heap = <<>>
    /\ objs = <<>>
    /\ op = [name |-> "none"]
    /\ fit = [source |-> <<>>, dest |-> <<>>]
    /\ segments = <<>>
    /\ cli = <<>>
    /\ legacy = <<>>

\* `if "crop" in self.mark: for point1, point2 in self.crop_marks(destpage,
\* len(reader), matrix, destpage_size, reader.size)` for matrix number k - 1
CallCropMarks(k, size) ==
    /\ pc = "yielded"
    /\ raised = ""
    /\ k \in 1..Len(mats)
    /\ mi' = k
    /\ \E destpage_size \in {Pagesize(mats[k], size)} :
           segments' = [space |-> CropSpace(cfg),
                        inputsize |-> size,
                        outputsize |-> destpage_size,
                        lines |-> CropMarks(cfg, pages, destpage_size, size)]
    /\ pc' = "marked"
    /\ UNCHANGED <<cfg, group, files, blank_number, blank_position, pages, mats, base_mats,
                   group_mats, raised, si, destpage, calls, reader_open, writer_open, saved>>
    /\ UNCHANGED <<invoked, heap, objs, op, fit, cli, legacy>>

NextK ==
    \/ \E n \in 1..MaxCropPages : CallBlankPageNumber(n)
    \/ CallMatrixes
    \/ \E k \in 1..MaxCropPages, size \in SourceSizes : CallCropMarks(k, size)

SpecK == InitK /\ [][NextK]_vars

(***************************************************************************)
(* perfect/__main__.py: the command line of the perfect schema.  A length  *)
(* halved by signature2folds is kept as numerator over a power of two.     *)
(***************************************************************************)
\* round(math.log2(number)) == math.log2(number), number > 0
RECURSIVE ispowerof2(_)
ispowerof2(number) ==
    IF number = 1 THEN TRUE
    ELSE IF number % 2 = 1 THEN FALSE
    ELSE ispowerof2(number \div 2)

RECURSIVE FoldLoop(_, _, _, _, _)
\* the loop `while width * height != 1` with width = w / 2^i, height = h / 2^j
\* and `fold` the next letter of the alternator
FoldLoop(w, h, i, j, fold) ==
    IF w * h = Pow2(i + j) THEN <<>>
    ELSE <<fold>> \o (IF fold = "h" THEN FoldLoop(w, h, i + 1, j, "v")
                                    ELSE FoldLoop(w, h, i, j + 1, "h"))

\* cycle("hv") if width > height, else cycle("vh")
signature2folds(width, height) ==
    FoldLoop(width, height, 0, 0, IF width > height THEN "h" ELSE "v")

RECURSIVE FloorLog2(_)
\* math.floor(math.log2(q)) of a quotient q >= 1
FloorLog2(q) == IF q < 2 THEN 0 ELSE 1 + FloorLog2(q \div 2)

\* papersize.parse_papersize("A4"), in points
A4 == <<595, 842>>

\* any2folds(signature, outputsize, inputsize=inputsize), <<>> standing for an
\* argument that is None; math.log2 of a quotient that is 0 raises ValueError
any2folds(signature, format, inputsize) ==
    LET outputsize == IF signature = <<>> /\ format = <<>> THEN A4 ELSE format
        notrotated == <<FloorLog2(outputsize[1] \div inputsize[1]),
                        FloorLog2(outputsize[2] \div inputsize[2])>>
        rotated == <<FloorLog2(outputsize[2] \div inputsize[1]),
                     FloorLog2(outputsize[1] \div inputsize[2])>>
    IN  IF signature # <<>>
        THEN IF ~(ispowerof2(signature[1]) /\ ispowerof2(signature[2]))
             THEN [raised |-> "UserError", folds |-> <<>>]
             ELSE [raised |-> "", folds |-> signature2folds(signature[1], signature[2])]
        ELSE IF outputsize[1] \div inputsize[1] = 0 \/ outputsize[2] \div inputsize[2] = 0
                \/ outputsize[2] \div inputsize[1] = 0 \/ outputsize[1] \div inputsize[2] = 0
        THEN [raised |-> "ValueError", folds |-> <<>>]
        ELSE IF rotated[1] * rotated[2] > notrotated[1] * notrotated[2]
        THEN [raised |-> "", folds |-> signature2folds(Pow2(rotated[1]), Pow2(rotated[2]))]
        ELSE [raised |-> "",
              folds |-> signature2folds(Pow2(notrotated[1]), Pow2(notrotated[2]))]

folds2margins(outputsize, sourcesize, folds, imargin) ==
    LET leftright == outputsize[1] - sourcesize[1] * Pow2(Count(folds, "h"))
                     - imargin * (Pow2(Count(folds, "h")) - 1)
        topbottom == outputsize[2] - sourcesize[2] * Pow2(Count(folds, "v"))
                     - imargin * (Pow2(Count(folds, "v")) - 1)
    IN  Margins(leftright, leftright, topbottom, topbottom)

\* number of pages of the document given on the command line
CliPages == 3

\* args after parser.parse_args() and pdf.Reader(args.files): --signature and
\* --format exclude each other, --imargin and --omargin default to 0; without
\* both the format is A4, which is given large source pages only
CliArgs ==
    {[signature |-> s, format |-> f, size |-> z, bind |-> b, imargin |-> m] :
        s \in {<<>>, <<1, 1>>, <<2, 1>>, <<4, 1>>, <<1, 4>>, <<2, 2>>, <<4, 2>>, <<2, 4>>,
               <<8, 1>>, <<3, 2>>},
        f \in {<<>>, <<21, 29>>, <<40, 28>>, <<80, 14>>, <<20, 28>>},
        z \in {<<10, 14>>, <<14, 10>>, <<25, 10>>, <<100, 140>>, <<300, 300>>},
        b \in {"left", "top"},
        m \in {0, 2}}

InitP ==
    /\ \E a \in CliArgs :
          /\ a.signature = <<>> \/ a.format = <<>>
          /\ (a.signature = <<>> /\ a.format = <<>>) => a.size[1] >= 100
          /\ cli = [args |-> a, stage |-> "parsed", folds |-> <<>>,
                    omargin |-> Margins1(0), pagesize |-> <<>>, raised |-> "", exit |-> 0]
    /\ cfg = Config("perfect", <<1, 1>>, 1, <<>>, cli.args.bind, cli.args.imargin, Margins1(0),
                    nocreep)
    /\ group = 1
    /\ pc = "cli"
    /\ files = <<>>
    /\ blank_number = 0
    /\ blank_position = 0
    /\ pages = 0
    /\ mats = <<>>
    /\ base_mats = <<>>
    /\ group_mats = <<>>
    /\ raised = ""
    /\ mi = 0
    /\ si = 0
    /\ destpage = -1
    /\ calls = <<>>
    /\ reader_open = FALSE
    /\ writer_open = FALSE
    /\ saved = FALSE
    /\ invoked = {}
    /\ heap = <<>>
    /\ objs = <<>>
    /\ op = [name |-> "none"]
    /\ fit = [source |-> <<>>, dest |-> <<>>]
    /\ segments = <<>>
    /\ legacy = <<>>

\* args.folds = any2folds(args.signature, args.format, inputsize=sourcesize);
\* a UserError is caught and ends in sys.exit(1), any other exception is not
MainFolds ==
    /\ pc = "cli"
    /\ cli.stage = "parsed"
    /\ \E r \in {any2folds(cli.args.signature, cli.args.format,
                           IF cli.args.bind \in {"top", "bottom"}
                           THEN <<cli.args.size[2], cli.args.size[1]>>
                           ELSE cli.args.size)} :
          cli' = [cli EXCEPT !.folds = r.folds,
                             !.raised = r.raised,
                             !.exit = IF r.raised = "UserError" THEN 1 ELSE 0,
                             !.stage = IF r.raised = "" THEN "folded" ELSE "exit"]
    /\ UNCHANGED <<cfg, group, pc, files, blank_number, blank_position, pages, mats, base_mats,
                   group_mats, raised, mi, si, destpage, calls, reader_open, writer_open, saved>>
    /\ UNCHANGED <<invoked, heap, objs, op, fit, segments, legacy>>

\* `if args.format is not None and args.imargin == 0: args.omargin =
\* folds2margins(args.format, args.files.size, args.folds, args.imargin)`
MainMargins ==
    /\ pc = "cli"
    /\ cli.stage = "folded"
    /\ cli' = [cli EXCEPT !.omargin = IF cli.args.format # <<>> /\ cli.args.imargin = 0
                                      THEN folds2margins(cli.args.format, cli.args.size,
                                                         cli.folds, cli.args.imargin)
                                      ELSE @,
                          !.stage = "margined"]
    /\ UNCHANGED <<cfg, group, pc, files, blank_number, blank_position, pages, mats, base_mats,
                   group_mats, raised, mi, si, destpage, calls, reader_open, writer_open, saved>>
    /\ UNCHANGED <<invoked, heap, objs, op, fit, segments, legacy>>

\* impose(**vars(args)): PerfectImpositor(omargin, imargin, bind, folds, group=1)
\* and the matrices of its job; pagesize is that of the first output page
MainImpose ==
    /\ pc = "cli"
    /\ cli.stage = "margined"
    /\ \E c \in {Config("perfect", PerfectSignature(cli.folds), 1, cli.folds, cli.args.bind,
                        cli.args.imargin, cli.omargin, nocreep)} :
        \E r \in {Matrixes(c, 1, CliPages + BlankPageNumber(c, CliPages))} :
          /\ cfg' = c
          /\ pages' = CliPages + BlankPageNumber(c, CliPages)
          /\ mats' = r.mats
          /\ raised' = r.raised
          /\ cli' = [cli EXCEPT !.stage = "imposed",
                                !.raised = r.raised,
                                !.pagesize = IF r.raised = "" /\ r.mats # <<>>
                                             THEN Pagesize(r.mats[1], cli.args.size)
                                             ELSE <<>>]
    /\ UNCHANGED <<group, pc, files, blank_number, blank_position, base_mats,
                   group_mats, mi, si, destpage, calls, reader_open, writer_open, saved>>
    /\ UNCHANGED <<invoked, heap, objs, op, fit, segments, legacy>>

NextP ==
    \/ MainFolds
    \/ MainMargins
    \/ MainImpose

SpecP == InitP /\ [][NextP]_vars

(***************************************************************************)
(* imposition.py: the legacy module.  A fold direction is "h" (HORIZONTAL) *)
(* or "v" (VERTICAL), an orientation is its angle (NORTH 90, SOUTH 270),   *)
(* and ImpositionMatrix.folds is one list owned by the class: every        *)
(* matrix reads it and appends to it.                                      *)
(***************************************************************************)
MaxLegacyCalls == 2

MaxLegacyFolds == 2

\* a cell of self.matrix that holds None
NoImpositionPage == [number |-> -1, orientation |-> 0]

\* Orientation.fold: get_orientation(-value) if rotate, else
\* get_orientation(180 - value), the angle taken modulo 360
OrientationFold(value, rotate) ==
    IF rotate THEN (360 - value) % 360 ELSE (540 - value) % 360

\* ImpositionPage.fold
ImpositionPageFold(page, page_max, rotate) ==
    [number |-> page_max - page.number,
     orientation |-> OrientationFold(page.orientation, rotate)]

\* _metapage_find_page: the first of the four corners that holds a page, as
\* <<x, y>>; <<>> when the loop ends without a return (None)
metapage_find_page(matrix, corner, size) ==
    LET corners == << corner,
                      <<corner[1] + size[1] - 1, corner[2]>>,
                      <<corner[1], corner[2] + size[2] - 1>>,
                      <<corner[1] + size[1] - 1, corner[2] + size[2] - 1>> >>
        found == {k \in 1..4 : At(matrix, corners[k][1], corners[k][2]) # NoImpositionPage}
    IN  IF found = {} THEN <<>>
        ELSE corners[CHOOSE k \in found : \A j \in found : k <= j]

\* ImpositionMatrix.fold on a matrix of the given bind while the list of the
\* class is `folds`: range() with a step of 0 raises ValueError, self[page]
\* with the None of a metapage without a page raises TypeError; the list is
\* appended to when the loops end
ImpositionMatrixFold(matrix, folds, bind, orientation, rotate) ==
    LET sx == Len(matrix)
        sy == Len(matrix[1])
        mx == sx \div Pow2(Count(folds, "h"))
        my == sy \div Pow2(Count(folds, "v"))
        corners == {c \in (0..(sx - 1)) \X (0..(sy - 1)) : c[1] % mx = 0 /\ c[2] % my = 0}
        page(c) == metapage_find_page(matrix, c, <<mx, my>>)
        target(c) == IF orientation = "h"
                     THEN <<2 * c[1] + mx - page(c)[1] - 1, page(c)[2]>>
                     ELSE <<page(c)[1], 2 * c[2] + my - page(c)[2] - 1>>
    IN  IF mx = 0 \/ my = 0
        THEN [raised |-> "ValueError", matrix |-> matrix, folds |-> folds]
        ELSE IF \E c \in corners : page(c) = <<>>
        THEN [raised |-> "TypeError", matrix |-> matrix, folds |-> folds]
        ELSE [raised |-> "",
              folds |-> Append(folds, orientation),
              matrix |-> [x \in 1..sx |-> [y \in 1..sy |->
                  IF \E c \in corners : target(c) = <<x - 1, y - 1>>
                  THEN LET c == CHOOSE c \in corners : target(c) = <<x - 1, y - 1>>
                       IN  ImpositionPageFold(At(matrix, page(c)[1], page(c)[2]),
                                              Pow2(Len(folds) + 1) - 1, rotate)
                  ELSE matrix[x][y]]]]

\* ImpositionMatrix.__init__(size, bind)
ImpositionMatrixInit(folds, size, bind) ==
    LET first == IF bind \in {"top", "right"} THEN <<1, 1>> ELSE <<2 * size[1], size[2]>>
    IN  ImpositionMatrixFold(
            [x \in 1..(2 * size[1]) |-> [y \in 1..size[2] |->
                IF <<x, y>> = first THEN [number |-> 0, orientation |-> 90]
                ELSE NoImpositionPage]],
            folds, bind, "h", bind \in {"top", "bottom"})

RECURSIVE FoldEach(_, _, _)
\* `for i in folds: matrix.fold(i)`, rotate being chosen by fold
FoldEach(m, bind, todo) ==
    IF m.raised # "" \/ todo = <<>> THEN m
    ELSE FoldEach(ImpositionMatrixFold(m.matrix, m.folds, bind, todo[1],
                                       IF todo[1] = "h" THEN bind \in {"top", "bottom"}
                                       ELSE bind \in {"left", "right"}),
                  bind, Tail(todo))

\* imposition_matrix(folds, bind) called while ImpositionMatrix.folds is classfolds
imposition_matrix(classfolds, folds, bind) ==
    FoldEach(ImpositionMatrixInit(classfolds,
                                  <<Pow2(Count(folds, "h")), Pow2(Count(folds, "v"))>>, bind),
             bind, folds)

InitL ==
    /\ legacy = [folds |-> <<>>, calls |-> 0, args |-> <<>>, result |-> <<>>]
    /\ cfg = Config("legacy", <<1, 1>>, 0, <<>>, "left", 0, Margins1(0), nocreep)
    /\ group = 0
    /\ pc = "legacy"
    /\ files = <<>>
    /\ blank_number = 0
    /\ blank_position = 0
    /\ pages = 0
    /\ mats = <<>>
    /\ base_mats = <<>>
    /\ group_mats = <<>>
    /\ raised = ""
    /\ mi = 0
    /\ si = 0
    /\ destpage = -1
    /\ calls = <<>>
    /\ reader_open = FALSE
    /\ writer_open = FALSE
    /\ saved = FALSE
    /\ invoked = {}
    /\ heap = <<>>
    /\ objs = <<>>
    /\ op = [name |-> "none"]
    /\ fit = [source |-> <<>>, dest |-> <<>>]
    /\ segments = <<>>
    /\ cli = <<>>

\* one call of imposition_matrix(folds, bind) in the running interpreter; an
\* exception leaves the list of the class as the completed folds made it
CallImpositionMatrix(folds, bind) ==
    /\ pc = "legacy"
    /\ legacy.calls < MaxLegacyCalls
    /\ \E r \in {imposition_matrix(legacy.folds, folds, bind)} :
          legacy' = [folds |-> r.folds,
                     calls |-> legacy.calls + 1,
                     args |-> [folds |-> folds, bind |-> bind],
                     result |-> [raised |-> r.raised,
                                 matrix |-> IF r.raised = "" THEN r.matrix ELSE <<>>]]
    /\ UNCHANGED <<cfg, group, pc, files, blank_number, blank_position, pages, mats, base_mats,
                   group_mats, raised, mi, si, destpage, calls, reader_open, writer_open, saved>>
    /\ UNCHANGED <<invoked, heap, objs, op, fit, segments, cli>>

NextL ==
    \E k \in 0..MaxLegacyFolds : \E folds \in FoldsOfLen(k), bind \in Binds :
        CallImpositionMatrix(folds, bind)

SpecL == InitL /\ [][NextL]_vars

(***************************************************************************)
(* Vocabulary of the properties                                            *)
(***************************************************************************)
\* the slots of matrix k of ms as <<x, y>>, and of all of ms as <<k, x, y>>
\* (k from 1, x and y from 0)
SlotsOfMatrix(ms, k) ==
    {<<x, y>> \in (0..(Width(ms[k]) - 1)) \X (0..(Height(ms[k]) - 1)) : TRUE}

AllSlots(ms) == UNION {{<<k, s[1], s[2]>> : s \in SlotsOfMatrix(ms, k)} : k \in 1..Len(ms)}

NumberAt(ms, s) == At(ms[s[1]], s[2], s[3]).number

\* every index of [0, n) is the number of exactly one slot of ms, and no slot
\* holds any other number
ExactlyOnce(ms, n) ==
    /\ \A s \in AllSlots(ms) : NumberAt(ms, s) \in 0..(n - 1)
    /\ \A i \in 0..(n - 1) : Cardinality({s \in AllSlots(ms) : NumberAt(ms, s) = i}) = 1

\* the required multiple, as the documentation of each scheme states it
Modulus(c, n) ==
    LET wh == c.signature[1] * c.signature[2]
    IN  CASE c.scheme \in {"cards", "wire"} -> 2 * wh
          [] c.scheme = "cutstackfold" -> 4 * wh
          [] c.scheme = "copycutfold" -> 4
          [] c.scheme = "onepagezine" -> 8
          [] c.scheme = "perfect" ->
                2 * wh * (IF c.group = 0 THEN CeilDiv(n, 2 * wh) ELSE c.group)

(***************************************************************************)
(* C1: for every scheme and every source page count n >= 1, the number b   *)
(* of blank pages is in [0, modulus), n + b is a multiple of the modulus,  *)
(* and b = 0 exactly when n is already a multiple.                         *)
(***************************************************************************)
C1_BlankPageNumber ==
    pc = "padded" =>
        LET n == pages - blank_number
            b == blank_number
            modulus == Modulus(cfg, n)
        IN  /\ 0 <= b /\ b < modulus
            /\ (n + b) % modulus = 0
            /\ (b = 0) <=> (n % modulus = 0)

C1_Witness ==
    /\ pc = "padded"
    /\ cfg.scheme = "perfect" /\ cfg.group = 0 /\ cfg.signature = <<2, 1>>
    /\ pages - blank_number = 5 /\ blank_number = 3

(***************************************************************************)
(* C3: matrixes(n + blank_page_number(n)) never trips the divisibility     *)
(* assertion of the scheme, for every scheme and every n >= 1.             *)
(***************************************************************************)
C3_NoAssertionError == raised # "AssertionError"

C3_Witness ==
    /\ pc = "yielded" /\ raised = "" /\ Len(mats) > 0
    /\ cfg.scheme = "perfect" /\ cfg.group = 0 /\ blank_number > 0

(***************************************************************************)
(* C5: for every fold string over {h, v} of length f, base_matrix of the   *)
(* perfect scheme completes without error and yields a recto and a verso   *)
(* of 2^(#h) x 2^(#v) slots whose numbers, taken together, are exactly     *)
(* 0 .. 2^(f+1) - 1, each once.                                            *)
(***************************************************************************)
C5_BaseMatrixAnyFolds ==
    pc = "base_yielded" =>
        /\ raised = ""
        /\ Len(base_mats) = 2
        /\ \A k \in 1..Len(base_mats) :
            /\ Width(base_mats[k]) = Pow2(Count(cfg.folds, "h"))
            /\ Height(base_mats[k]) = Pow2(Count(cfg.folds, "v"))
        /\ ExactlyOnce(base_mats, Pow2(Len(cfg.folds) + 1))

(***************************************************************************)
(* C6: for perfect binding with group G >= 1 and P = 2wh, group_matrixes   *)
(* yields 2G matrices; sheet 0 maps base number m to                       *)
(* outer(m) = m + floor((m + 2) / 4) * 4 * (G - 1), sheet g maps it to     *)
(* outer(m) + 2g when m mod 4 <= 1 and to outer(m) - 2g otherwise; the     *)
(* numbers of one group are a permutation of [0, G * P); matrixes(n)       *)
(* repeats the group with offset G * P and every index of [0, n) occurs in *)
(* exactly one slot.                                                       *)
(***************************************************************************)
C6_Outer(m, G) == m + ((m + 2) \div 4) * 4 * (G - 1)

\* the numbering the claim states, of the matrices the code yields
C6_Numbering ==
    LET G == cfg.group
        P == 2 * cfg.signature[1] * cfg.signature[2]
    IN  /\ Len(group_mats) = 2 * G
        /\ \A s \in AllSlots(group_mats) :
            LET g == (s[1] - 1) \div 2
                m == At(base_mats[((s[1] - 1) % 2) + 1], s[2], s[3]).number
            IN  NumberAt(group_mats, s) =
                    IF g = 0 THEN C6_Outer(m, G)
                    ELSE IF m % 4 <= 1 THEN C6_Outer(m, G) + 2 * g
                    ELSE C6_Outer(m, G) - 2 * g
        /\ ExactlyOnce(group_mats, G * P)
        /\ Len(mats) = 2 * G * (pages \div (G * P))
        /\ \A s \in AllSlots(mats) :
            NumberAt(mats, s) =
                At(group_mats[((s[1] - 1) % (2 * G)) + 1], s[2], s[3]).number
                + ((s[1] - 1) \div (2 * G)) * G * P
        /\ ExactlyOnce(mats, pages)

C6_GroupNumbering ==
    (pc = "group_yielded" /\ cfg.group >= 1) => (raised = "" /\ C6_Numbering)

\* C6 on the fold strings base_matrix completes on: what is left of the claim
\* once the TypeError of C5 is set aside
C6_NumberingWhenBaseMatrixCompletes ==
    (pc = "group_yielded" /\ cfg.group >= 1 /\ raised = "") => C6_Numbering

(***************************************************************************)
(* C7: for cutstackfold with signature (w, h), any group >= 0 and a padded *)
(* count n multiple of 4wh, matrixes(n) yields exactly 2n / (4wh) matrices *)
(* and every index of [0, n) occurs in exactly one slot; signature (1, 1), *)
(* n = 4, group = 1 yields exactly 2 matrices.                             *)
(***************************************************************************)
C7_CutStackFoldCoversAll ==
    (pc = "yielded" /\ cfg.scheme = "cutstackfold") =>
        /\ raised = ""
        /\ Len(mats) = (2 * pages) \div (4 * cfg.signature[1] * cfg.signature[2])
        /\ ExactlyOnce(mats, pages)
        /\ (cfg.signature = <<1, 1>> /\ pages = 4 /\ cfg.group = 1) => Len(mats) = 2

(***************************************************************************)
(* C8: for copycutfold with any signature, any group >= 0 and a padded     *)
(* count n multiple of 4, every slot number is an index of [0, n), and for *)
(* each column-pair position (each of the w * h booklets) every index of   *)
(* [0, n) occurs exactly once over all yielded matrices.                   *)
(***************************************************************************)
C8_CopyCutFoldBooklets ==
    (pc = "yielded" /\ cfg.scheme = "copycutfold") =>
        /\ raised = ""
        /\ \A s \in AllSlots(mats) : NumberAt(mats, s) \in 0..(pages - 1)
        /\ \A x \in 0..(cfg.signature[1] - 1), y \in 0..(cfg.signature[2] - 1) :
            \A i \in 0..(pages - 1) :
                Cardinality({s \in AllSlots(mats) :
                    /\ s[2] \in {2 * x, 2 * x + 1}
                    /\ s[3] = y
                    /\ NumberAt(mats, s) = i}) = 1

(***************************************************************************)
(* C9: for cards with signature (w, h) and padded count n, matrixes(n)     *)
(* yields n / (2wh) recto/verso pairs; in pair s the recto slot (x, y)     *)
(* holds 2 * (x * h + y) + s * 2wh and the verso slot (w - 1 - x, y) holds *)
(* that number + 1; signature (2, 1), n = 4 gives recto [[0], [2]] and     *)
(* verso [[3], [1]].                                                       *)
(***************************************************************************)
C9_CardsNumbering ==
    (pc = "yielded" /\ cfg.scheme = "cards") =>
        LET w == cfg.signature[1]
            h == cfg.signature[2]
        IN  /\ raised = ""
            /\ Len(mats) = 2 * (pages \div (2 * w * h))
            /\ \A k \in 1..Len(mats) : Width(mats[k]) = w /\ Height(mats[k]) = h
            /\ \A s \in 0..((pages \div (2 * w * h)) - 1), x \in 0..(w - 1), y \in 0..(h - 1) :
                /\ At(mats[2 * s + 1], x, y).number = 2 * (x * h + y) + s * 2 * w * h
                /\ At(mats[2 * s + 2], w - 1 - x, y).number
                        = 2 * (x * h + y) + s * 2 * w * h + 1
            /\ (cfg.signature = <<2, 1>> /\ pages = 4) =>
                /\ <<At(mats[1], 0, 0).number, At(mats[1], 1, 0).number>> = <<0, 2>>
                /\ <<At(mats[2], 0, 0).number, At(mats[2], 1, 0).number>> = <<3, 1>>

C9_Witness ==
    /\ pc = "yielded" /\ cfg.scheme = "cards" /\ raised = ""
    /\ cfg.signature = <<2, 2>> /\ pages = 16 /\ Len(mats) = 4
    /\ At(mats[4], 0, 1).number = 15

(***************************************************************************)
(* C10: for wire with signature (w, h), padded count n and R = n / (2wh)   *)
(* sheets, on sheet s the recto slot (x, y), with i = x * h + y, holds     *)
(* 2 * (i * R + s) and the verso slot (w - 1 - x, y) holds that number     *)
(* + 1, and every index of [0, n) occurs in exactly one slot.              *)
(***************************************************************************)
C10_WireNumbering ==
    (pc = "yielded" /\ cfg.scheme = "wire") =>
        LET w == cfg.signature[1]
            h == cfg.signature[2]
            R == pages \div (2 * w * h)
        IN  /\ raised = ""
            /\ Len(mats) = 2 * R
            /\ \A s \in 0..(R - 1), x \in 0..(w - 1), y \in 0..(h - 1) :
                /\ At(mats[2 * s + 1], x, y).number = 2 * ((x * h + y) * R + s)
                /\ At(mats[2 * s + 2], w - 1 - x, y).number = 2 * ((x * h + y) * R + s) + 1
            /\ ExactlyOnce(mats, pages)

C10_Witness ==
    /\ pc = "yielded" /\ cfg.scheme = "wire" /\ raised = ""
    /\ cfg.signature = <<2, 2>> /\ pages = 16 /\ Len(mats) = 4
    /\ At(mats[3], 1, 0).number = 10

(***************************************************************************)
(* The impose job                                                          *)
(***************************************************************************)
\* page j of the sources taken as one document: page k of document f, where the
\* documents before f hold j - k pages
SourcePage(fs, j) ==
    CHOOSE p \in {FilePage(f, k) : f \in 1..Len(fs), k \in 0..MaxJobPages} :
        /\ p.index < fs[p.file]
        /\ SumLen(SubSeq(fs, 1, p.file - 1)) + p.index = j

\* C2: once the sources are read (n >= 1 pages, 0 <= last <= n,
\* b = blank_page_number(n)), the reader holds n + b logical pages: logical page
\* i is source page i for i < n - last, blank for the next b indices, and source
\* page i - b from n - last + b on.
C2_LogicalPageSequence ==
    LET n == SumLen(files)
        b == BlankPageNumber(cfg, n)
    IN  (pc # "start" /\ raised # "UserError" /\ cfg.last <= n) =>
            /\ pages = n + b
            /\ ReaderLen(files, blank_number) = n + b
            /\ \A i \in 0..(n + b - 1) :
                   ReaderGetItem(files, blank_number, blank_position, i)
                   = IF i < n - cfg.last THEN SourcePage(files, i)
                     ELSE IF i < n - cfg.last + b THEN None
                     ELSE SourcePage(files, i - b)

\* five pages in two documents, last = 2, three blanks: logical pages 3..5 are
\* blank and logical page 6 is the second page of the second document
C2_Witness ==
    /\ pc = "done"
    /\ files = <<2, 3>>
    /\ cfg.last = 2
    /\ blank_number = 3
    /\ ReaderGetItem(files, blank_number, blank_position, 2) = FilePage(2, 0)
    /\ ReaderGetItem(files, blank_number, blank_position, 3) = None
    /\ ReaderGetItem(files, blank_number, blank_position, 5) = None
    /\ ReaderGetItem(files, blank_number, blank_position, 6) = FilePage(2, 1)

\* the slots of matrix k the loop of impose has gone through
Processed(k, coord) ==
    \/ k < mi
    \/ /\ k = mi
       /\ \/ pc \in {"marks", "metadata", "exit", "done"}
          \/ /\ pc = "slots"
             /\ \E j \in 1..(si - 1) : Coordinates(mats[mi])[j] = coord

\* the insert calls made for slot coord of matrix k
InsertsOf(k, coord) ==
    {i \in 1..Len(calls) : calls[i].op = "insert" /\ calls[i].matrix = k /\ calls[i].coord = coord}

\* the page number the k-th new_page call returned
PageOfMatrix(k) ==
    LET j == CHOOSE j \in 1..Len(calls) :
                 /\ calls[j].op = "new_page"
                 /\ Cardinality({i \in 1..j : calls[i].op = "new_page"}) = k
    IN  calls[j].number

InsertedOnce(k, coord) ==
    /\ Cardinality(InsertsOf(k, coord)) = 1
    /\ \A i \in InsertsOf(k, coord) :
           /\ calls[i].number = PageOfMatrix(k)
           /\ calls[i].topleft = Topleft(mats[k], coord, SourceSize)
           /\ calls[i].rotate = At(mats[k], coord[1], coord[2]).rotate

InjectedBlank(number) ==
    blank_position <= number /\ number < blank_position + blank_number

\* C4: for every slot impose has gone through, no insert call is made when the
\* slot's number resolves to an injected blank page, and otherwise exactly one
\* insert call is made, on the page created for the slot's matrix, with the
\* slot's topleft and the slot's rotate.
C4_OneInsertPerSlot ==
    \A k \in 1..Len(mats) : \A coord \in SlotsOfMatrix(mats, k) :
        (raised = "" /\ Processed(k, coord)) =>
            IF InjectedBlank(At(mats[k], coord[1], coord[2]).number)
            THEN InsertsOf(k, coord) = {}
            ELSE InsertedOnce(k, coord)

\* the same, for the jobs whose matrices only hold numbers of logical pages
C4_OneInsertPerSlotInRange ==
    (\A s \in AllSlots(mats) : NumberAt(mats, s) < pages) => C4_OneInsertPerSlot

C4_WitnessInRange ==
    /\ pc = "done"
    /\ cfg.scheme = "cutstackfold"
    /\ files = <<2, 3>>
    /\ cfg.last = 1
    /\ \E k \in 1..Len(mats) : \E coord \in SlotsOfMatrix(mats, k) :
           /\ InjectedBlank(At(mats[k], coord[1], coord[2]).number)
           /\ InsertsOf(k, coord) = {}
    /\ \E k \in 1..Len(mats) : \E coord \in SlotsOfMatrix(mats, k) : InsertedOnce(k, coord)

(***************************************************************************)
(* C11: for onepagezine with padded count n = 8k, matrixes(n) yields       *)
(* exactly k matrices of width 4 and height 2, the j-th being the base     *)
(* layout with every number increased by 8j and the rotations unchanged;   *)
(* with bind = left the base columns are [(4,180),(5,0)], [(3,180),(6,0)], *)
(* [(2,180),(7,0)], [(1,180),(0,0)] as (number, rotate), and for any other *)
(* bind every rotate is that value plus BIND2ANGLE[bind] modulo 360, in    *)
(* {0, 90, 180, 270}.                                                      *)
(***************************************************************************)
C11_Base ==
    <<<<<<4, 180>>, <<5, 0>>>>, <<<<3, 180>>, <<6, 0>>>>,
      <<<<2, 180>>, <<7, 0>>>>, <<<<1, 180>>, <<0, 0>>>>>>

C11_ZineLayout ==
    (pc = "yielded" /\ cfg.scheme = "onepagezine") =>
        /\ raised = ""
        /\ Len(mats) = pages \div 8
        /\ \A j \in 1..Len(mats) :
            /\ Width(mats[j]) = 4
            /\ Height(mats[j]) = 2
            /\ \A x \in 0..3, y \in 0..1 :
                /\ At(mats[j], x, y).number = C11_Base[x + 1][y + 1][1] + 8 * (j - 1)
                /\ At(mats[j], x, y).rotate
                       = (C11_Base[x + 1][y + 1][2] + BIND2ANGLE[cfg.bind]) % 360
                /\ At(mats[j], x, y).rotate \in {0, 90, 180, 270}

\* two sheets bound at the top: the second sheet starts with (12, 270), (13, 90)
C11_Witness ==
    /\ pc = "yielded"
    /\ cfg.scheme = "onepagezine"
    /\ cfg.bind = "top"
    /\ pages = 16
    /\ Len(mats) = 2
    /\ <<At(mats[2], 0, 0).number, At(mats[2], 0, 0).rotate>> = <<12, 270>>
    /\ <<At(mats[2], 0, 1).number, At(mats[2], 0, 1).rotate>> = <<13, 90>>

(***************************************************************************)
(* C12: for every two-sided scheme (cards, wire, cutstackfold,             *)
(* copycutfold, perfect) and every consecutive recto/verso pair yielded by *)
(* matrixes, the recto page at (x, y) and the verso page at (W - 1 - x, y) *)
(* are the two sides of one leaf: their numbers are 2k and 2k + 1.         *)
(***************************************************************************)
TwoSided == {"cards", "wire", "cutstackfold", "copycutfold", "perfect"}

SameLeaf(a, b) == a # b /\ a \div 2 = b \div 2

C12_RectoVersoLeaves ==
    (pc = "yielded" /\ cfg.scheme \in TwoSided /\ raised = "") =>
        /\ Len(mats) % 2 = 0
        /\ \A i \in 1..(Len(mats) \div 2) :
            \A coord \in SlotsOfMatrix(mats, 2 * i - 1) :
                SameLeaf(At(mats[2 * i - 1], coord[1], coord[2]).number,
                         At(mats[2 * i], Width(mats[2 * i - 1]) - 1 - coord[1], coord[2]).number)

\* a cutstackfold sheet of two column pairs in a group of two: the second
\* recto/verso pair of the group
C12_Witness ==
    /\ pc = "yielded"
    /\ raised = ""
    /\ cfg.scheme = "cutstackfold"
    /\ cfg.signature = <<2, 1>>
    /\ group = 2
    /\ pages = 16
    /\ Len(mats) = 4
    /\ At(mats[3], 0, 0).number \div 2 = At(mats[4], 3, 0).number \div 2
    /\ At(mats[3], 0, 0).number # At(mats[4], 3, 0).number

(***************************************************************************)
(* C13: stacking composes additively.  When stack(j) has just been applied *)
(* to the result of m.stack(k), the new matrix equals m.stack(k + j) slot  *)
(* by slot (number, rotation and the four margins), and m.stack(0) equals  *)
(* m; k and j range over negative, zero and positive integers.             *)
(***************************************************************************)
C13_StackAdditive ==
    (pc = "objects" /\ op.name = "stack") =>
        /\ Len(op.args) = 2 =>
              Deref(heap, objs[op.obj]) = Stack(op.root, op.args[1] + op.args[2])
        /\ op.args = <<0>> => Deref(heap, objs[op.obj]) = op.root

\* m.stack(1).stack(1) of a rotated perfect matrix, and m.stack(-1).stack(1)
\* reached as well by the same run
C13_Witness ==
    /\ pc = "objects" /\ op.name = "stack" /\ op.args = <<MaxStep, MaxStep>>
    /\ cfg.scheme = "perfect"
    /\ Len(objs) = 3
    /\ heap[objs[3][1][1]].number = op.root[1][1].number + 2 * MaxStep
    /\ heap[objs[3][1][1]].rotate = 90

(***************************************************************************)
(* C14: copy() and stack(k) give matrices that share no Page object with   *)
(* any other matrix; creating one leaves every existing matrix unchanged   *)
(* and keeps each slot's rotate and margins (and, for copy, its number);   *)
(* writing to a slot of one matrix, or insert_sheets on it, changes no     *)
(* other matrix.                                                           *)
(***************************************************************************)
C14_NoSharedPage ==
    \A i, j \in 1..Len(objs) : i # j => Addresses(objs[i]) \cap Addresses(objs[j]) = {}

C14_Frame ==
    pc = "objects" =>
        /\ op'.name \in {"copy", "stack"} =>
            /\ \A j \in 1..Len(objs) : Deref(heap', objs'[j]) = Deref(heap, objs[j])
            /\ \A s \in SlotsOfGrid(objs[op'.from]) :
                LET new == At(Deref(heap', objs'[op'.obj]), s[1], s[2])
                    old == At(Deref(heap, objs[op'.from]), s[1], s[2])
                IN  /\ new.rotate = old.rotate
                    /\ new.left = old.left /\ new.right = old.right
                    /\ new.top = old.top /\ new.bottom = old.bottom
                    /\ op'.name = "copy" => new.number = old.number
        /\ op'.name \in {"set", "insert_sheets"} =>
            \A j \in 1..Len(objs) :
                j # op'.obj => Deref(heap', objs'[j]) = Deref(heap, objs[j])

C14_CopiesAreIndependent == [](pc = "objects" => C14_NoSharedPage) /\ [][C14_Frame]_vars

\* insert_sheets has renumbered and crept a copy of a copycutfold matrix, and
\* the original still is the base matrix
C14_Witness ==
    /\ pc = "objects" /\ op.name = "insert_sheets" /\ op.obj = 2
    /\ cfg.scheme = "copycutfold"
    /\ \E k \in 1..2 :
        /\ Deref(heap, objs[1]) = BaseMatrixOf(cfg)[k]
        /\ Deref(heap, objs[2]) = InsertSheet(cfg, BaseMatrixOf(cfg)[k], 1, 4 * cfg.group, 2)
        /\ Deref(heap, objs[2]) # Deref(heap, objs[1])

(***************************************************************************)
(* C15: compute_signature raises the oversize UserError exactly when the   *)
(* source fits the destination in neither orientation; otherwise the grid  *)
(* (c, r) has c >= 1 and r >= 1, fits the destination in the reported      *)
(* orientation (c * sw <= width, r * sh <= height) and has the larger of   *)
(* the two orientations' cell counts.  As stated (exact fit) this fails:   *)
(* the quotients are rounded to six decimals before flooring, so a source  *)
(* that is too long by less than its 1/RoundingScale is taken to fit.      *)
(***************************************************************************)
Swap(size) == <<size[2], size[1]>>

\* n lengths s side by side are no longer than d
FitsExactly(n, s, d) == n * s <= d

\* n lengths s side by side exceed d by no more than s / RoundingScale
FitsRounded(n, s, d) ==
    \/ n * s <= d
    \/ n * s - d <= 1000 /\ (n * s - d) * RoundingScale <= s

\* the cells of the fullest grid in one orientation, exactly
CellsExactly(source, dest) == (dest[1] \div source[1]) * (dest[2] \div source[2])

\* the largest n that fits up to the rounding
MostRounded(s, d) ==
    CHOOSE n \in {d \div s, (d \div s) + 1} : FitsRounded(n, s, d) /\ ~FitsRounded(n + 1, s, d)

CellsRounded(source, dest) == MostRounded(source[1], dest[1]) * MostRounded(source[2], dest[2])

Apart(a, b, size) ==
    \/ a[1] + size[1] <= b[1] \/ b[1] + size[1] <= a[1]
    \/ a[2] + size[2] <= b[2] \/ b[2] + size[2] <= a[2]

C16_CardsGeometry ==
    (pc = "yielded" /\ cfg.scheme \in {"cards", "wire"} /\ raised = "") =>
        \A size \in SourceSizes : \A k \in 1..Len(mats) :
            LET w == cfg.signature[1]
                h == cfg.signature[2]
                sheet == <<cfg.omargin.left + w * size[1] + (w - 1) * cfg.imargin
                             + cfg.omargin.right,
                           cfg.omargin.top + h * size[2] + (h - 1) * cfg.imargin
                             + cfg.omargin.bottom>>
            IN  /\ Pagesize(mats[k], size) = sheet
                /\ \A s \in SlotsOfMatrix(mats, k) :
                    /\ Topleft(mats[k], s, size)[1] >= 0
                    /\ Topleft(mats[k], s, size)[2] >= 0
                    /\ Topleft(mats[k], s, size)[1] + size[1] <= sheet[1]
                    /\ Topleft(mats[k], s, size)[2] + size[2] <= sheet[2]
                    /\ \A t \in SlotsOfMatrix(mats, k) :
                        s # t => Apart(Topleft(mats[k], s, size),
                                       Topleft(mats[k], t, size), size)

\* a 2 x 2 sheet of cards with margins between and around the slots
C16_Witness ==
    /\ pc = "yielded" /\ raised = "" /\ cfg.scheme = "cards"
    /\ cfg.signature = <<2, 2>> /\ cfg.imargin = 2 /\ cfg.omargin = Margins(2, 4, 6, 8)
    /\ Len(mats) >= 2
    /\ Pagesize(mats[2], <<10, 14>>) = <<28, 44>>
    /\ Topleft(mats[2], <<1, 1>>, <<10, 14>>) = <<14, 22>>

(***************************************************************************)
(* C17: in every matrix any scheme yields, with any bind edge, margins and *)
(* creep, all rows have the same summed width (slot widths and left/right  *)
(* margins) and all columns the same summed height, so the maxima pagesize *)
(* takes equal every single row sum and column sum.                        *)
(***************************************************************************)
C17_RowsAndColumnsAgree ==
    (pc = "yielded" /\ raised = "") =>
        \A size \in SourceSizes : \A k \in 1..Len(mats) :
            \E sheet \in {Pagesize(mats[k], size)} :
                /\ \A y \in 0..(Height(mats[k]) - 1) :
                      LeftOf(mats[k], Width(mats[k]), y, size) = sheet[1]
                /\ \A x \in 0..(Width(mats[k]) - 1) :
                      TopOf(mats[k], x, Height(mats[k]), size) = sheet[2]

\* a cutstackfold sheet of two rows whose slots carry creep, and a perfect
\* sheet of rotated slots in two rows, reached by other runs
C17_Witness ==
    /\ pc = "yielded" /\ raised = "" /\ cfg.scheme = "cutstackfold"
    /\ cfg.creep # nocreep /\ cfg.imargin = 2 /\ cfg.bind = "top"
    /\ \E k \in 1..Len(mats) :
        /\ Height(mats[k]) = 2 /\ Width(mats[k]) = 4
        /\ At(mats[k], 0, 0).right + At(mats[k], 1, 0).left > cfg.imargin
        /\ At(mats[k], 0, 0).right # At(mats[k], 2, 0).right
        /\ LeftOf(mats[k], 4, 1, <<10, 14>>) = Pagesize(mats[k], <<10, 14>>)[1]

(***************************************************************************)
(* C18: matrixes(n) is a pure function of n and the constructor arguments: *)
(* a second call on the same impositor, with the same or another n, yields *)
(* what a freshly constructed impositor of the same configuration yields   *)
(* for that n, cutstackfold and copycutfold with group = 0 included.       *)
(***************************************************************************)
C18_MatrixesIsPure ==
    pc = "yielded_again" =>
        /\ mats = Matrixes(cfg, cfg.group, pages).mats
        /\ raised = Matrixes(cfg, cfg.group, pages).raised

\* the same for the impositors whose group is given (not 0): cards, wire,
\* onepagezine, perfect, and cutstackfold and copycutfold with group >= 1
C18_PureWhenGroupGiven ==
    (pc = "yielded_again" /\ ~(cfg.scheme \in {"cutstackfold", "copycutfold"} /\ cfg.group = 0)) =>
        /\ mats = Matrixes(cfg, cfg.group, pages).mats
        /\ raised = Matrixes(cfg, cfg.group, pages).raised
        /\ group = cfg.group

C18_WitnessGroupGiven ==
    /\ pc = "yielded_again" /\ raised = ""
    /\ cfg.scheme = "cutstackfold" /\ cfg.group = 1 /\ cfg.signature = <<1, 1>>
    /\ pages = 8 /\ Len(mats) = 4

(***************************************************************************)
(* C19: when the opened source has no page, impose raises UserError before *)
(* blank_page_number or matrixes is called and before a Writer is created: *)
(* no output page is made, nothing is saved, and the reader is closed.     *)
(***************************************************************************)
C19_EmptyInput ==
    (pc # "start" /\ ReaderLen(files, 0) = 0) =>
        /\ pc = "raised"
        /\ raised = "UserError"
        /\ invoked = {"Reader", "Reader.__exit__"}
        /\ calls = <<>>
        /\ ~saved
        /\ ~reader_open
        /\ ~writer_open

\* one document without pages was opened, and closed again by the UserError
C19_Witness ==
    /\ pc = "raised" /\ raised = "UserError"
    /\ files = <<0>>
    /\ "Reader" \in invoked /\ "Reader.__exit__" \in invoked
    /\ ~reader_open

(***************************************************************************)
(* C20: in every execution of impose, returning normally or raising at any *)
(* step, every source document and the output document that were opened    *)
(* are closed when impose exits, and the output is saved if and only if no *)
(* exception occurred.                                                     *)
(***************************************************************************)
C20_AllClosedAtExit ==
    pc \in {"done", "raised"} =>
        /\ ~reader_open
        /\ ~writer_open
        /\ "Reader" \in invoked => "Reader.__exit__" \in invoked
        /\ "Writer" \in invoked => "Writer.__exit__" \in invoked
        /\ saved <=> raised = ""

\* the exception was raised by the call `step` of the PDF library
RaisedAt(step) == calls # <<>> /\ calls[Len(calls)] = [op |-> "raise", at |-> step]

\* the same, for the executions that return normally or raise at the page-count
\* check, in matrixes, new_page, insert, the marks or set_metadata: all but the
\* ones in which saving the output fails
C20_ClosedUnlessSaveFails ==
    (pc \in {"done", "raised"} /\ ~RaisedAt("save")) =>
        /\ ~reader_open
        /\ ~writer_open
        /\ "Reader" \in invoked => "Reader.__exit__" \in invoked
        /\ "Writer" \in invoked => "Writer.__exit__" \in invoked
        /\ saved <=> raised = ""

\* an insert on the second output page raised: nothing saved, all closed
C20_WitnessInsertRaises ==
    /\ pc = "raised" /\ RaisedAt("insert") /\ NewPages = 2
    /\ ~saved /\ ~reader_open /\ ~writer_open

(***************************************************************************)
(* C21: _crop_space returns, for every edge and every margin >= 0, an      *)
(* inset equal to min(20, margin / 2).                                     *)
(***************************************************************************)
Min(a, b) == IF a < b THEN a ELSE b

C21_CropSpaceIsMinOfHalf ==
    pc = "marked" =>
        segments.space = <<Min(CropDistance, cfg.omargin.left \div 2),
                           Min(CropDistance, cfg.omargin.right \div 2),
                           Min(CropDistance, cfg.omargin.bottom \div 2),
                           Min(CropDistance, cfg.omargin.top \div 2)>>

\* what the code returns: half the margin below 20, and 20 from 20 on
C21_CropSpaceHalfBelowTwenty ==
    pc = "marked" =>
        \A e \in 1..4 :
            LET margin == <<cfg.omargin.left, cfg.omargin.right,
                            cfg.omargin.bottom, cfg.omargin.top>>[e]
            IN  /\ margin < CropDistance => segments.space[e] = margin \div 2
                /\ margin >= CropDistance => segments.space[e] = CropDistance

C21_Witness == pc = "marked" /\ cfg.omargin.top = 30 /\ segments.space[4] = 20

(***************************************************************************)
(* C22: for cards, wire, cutstackfold, onepagezine and perfect, with any   *)
(* output margins and any signature, every crop-mark segment has both      *)
(* endpoints inside [0, width] x [0, height] of the sheet and does not     *)
(* intersect the rectangle occupied by the placed pages.                   *)
(***************************************************************************)
InsideSheet(p, sheet) ==
    /\ 0 <= p[1] /\ p[1] <= sheet[1]
    /\ 0 <= p[2] /\ p[2] <= sheet[2]

\* the rectangle inside the output margins, where the pages are placed
PlacedBox(c, sheet) ==
    [x1 |-> c.omargin.left, x2 |-> sheet[1] - c.omargin.right,
     y1 |-> c.omargin.top, y2 |-> sheet[2] - c.omargin.bottom]

\* some point of the segment lies strictly inside the box
Crosses(seg, box) ==
    /\ Min(seg[1][1], seg[2][1]) < box.x2
    /\ Min(-seg[1][1], -seg[2][1]) < -box.x1
    /\ Min(seg[1][2], seg[2][2]) < box.y2
    /\ Min(-seg[1][2], -seg[2][2]) < -box.y1

C22_CropMarksInMargins ==
    pc = "marked" =>
        \A i \in 1..Len(segments.lines) :
            /\ InsideSheet(segments.lines[i][1], segments.outputsize)
            /\ InsideSheet(segments.lines[i][2], segments.outputsize)
            /\ ~Crosses(segments.lines[i], PlacedBox(cfg, segments.outputsize))

\* with equal top and bottom margins the marks stay in the margins
C22_CropMarksInEqualMargins ==
    (pc = "marked" /\ cfg.omargin.top = cfg.omargin.bottom) =>
        \A i \in 1..Len(segments.lines) :
            /\ InsideSheet(segments.lines[i][1], segments.outputsize)
            /\ InsideSheet(segments.lines[i][2], segments.outputsize)
            /\ ~Crosses(segments.lines[i], PlacedBox(cfg, segments.outputsize))

C22_Witness ==
    /\ pc = "marked"
    /\ cfg.omargin = Margins(2, 4, 6, 8)
    /\ Len(segments.lines) > 0

(***************************************************************************)
(* C23: impose consumes the matrices in order.  For each matrix new_page   *)
(* is called exactly once, with the pagesize of that matrix, before any    *)
(* insert or mark call for that matrix; all calls for matrix k come before *)
(* new_page for matrix k + 1; set_metadata is called exactly once, after   *)
(* the last matrix and before the writer saves.                            *)
(***************************************************************************)
CallsOf(name) == {i \in 1..Len(calls) : calls[i].op = name}

\* the number of the output page that is the newest one when call i is made
NewestPage(i) == Cardinality({j \in CallsOf("new_page") : j < i}) - 1

C23_CallOrder ==
    /\ \A i \in CallsOf("new_page") :
          /\ calls[i].number = NewestPage(i) + 1
          /\ calls[i].number < Len(mats)
          /\ calls[i].size = Pagesize(mats[calls[i].number + 1], SourceSize)
    /\ \A i \in CallsOf("insert") :
          /\ calls[i].matrix = NewestPage(i) + 1
          /\ calls[i].number = NewestPage(i)
    /\ \A i \in CallsOf("crop_marks") \cup CallsOf("bind_marks") :
          /\ calls[i].number = NewestPage(i)
          /\ \A j \in CallsOf("insert") : calls[j].number = calls[i].number => j < i
    /\ \A i \in CallsOf("set_metadata") :
          /\ NewestPage(i) + 1 = Len(mats)
          /\ \A j \in 1..Len(calls) :
                j # i => calls[j].op # "set_metadata" /\ (j < i \/ calls[j].op = "raise")
    /\ pc \in {"exit", "done"} =>
          /\ Cardinality(CallsOf("new_page")) = Len(mats)
          /\ Cardinality(CallsOf("set_metadata")) = 1
    /\ saved => pc = "done"

C23_Witness ==
    /\ pc = "done"
    /\ saved
    /\ Len(mats) >= 2
    /\ cfg.mark = {"crop", "bind"}
    /\ Cardinality(CallsOf("insert")) >= 3
    /\ Cardinality(CallsOf("bind_marks")) = Len(mats)

(***************************************************************************)
(* C24: for cutstackfold with a non-negative, non-decreasing creep         *)
(* function, the depth given to creep in every turn of the creep loop is   *)
(* non-negative and below the range over which maxcreep is taken, so that  *)
(* creep <= maxcreep, and every yielded Page has left >= 0 and right >= 0. *)
(***************************************************************************)
\* the turns of the creep loop: base matrix number, x, y
CreepTurns(c, g) ==
    (0..(2 * g - 1)) \X (0..(2 * c.signature[1] - 1)) \X (0..(c.signature[2] - 1))

C24_CreepBelowMaxcreep ==
    (pc = "yielded" /\ cfg.scheme = "cutstackfold" /\ raised = "") =>
        LET total == group * 4 * cfg.signature[1] * cfg.signature[2]
        IN  /\ \A t \in CreepTurns(cfg, group) :
                  /\ CutStackFoldDepth(cfg, group, t[1], t[2], t[3]) >= 0
                  /\ CutStackFoldDepth(cfg, group, t[1], t[2], t[3]) < total \div 4
                  /\ Creep(cfg.creep, CutStackFoldDepth(cfg, group, t[1], t[2], t[3]))
                        <= CutStackFoldMaxCreep(cfg, total)
            /\ \A k \in 1..Len(mats) : \A s \in SlotsOfMatrix(mats, k) :
                  /\ At(mats[k], s[1], s[2]).left >= 0
                  /\ At(mats[k], s[1], s[2]).right >= 0

\* without creep the margins are never negative
C24_NoCreepNoNegativeMargin ==
    (pc = "yielded" /\ cfg.scheme = "cutstackfold" /\ raised = "" /\ cfg.creep = nocreep) =>
        \A k \in 1..Len(mats) : \A s \in SlotsOfMatrix(mats, k) :
            /\ At(mats[k], s[1], s[2]).left >= 0
            /\ At(mats[k], s[1], s[2]).right >= 0

\* some yielded page of a creeping cutstackfold has a negative margin
C24_NegativeMargin ==
    /\ pc = "yielded" /\ cfg.scheme = "cutstackfold" /\ raised = ""
    /\ \E k \in 1..Len(mats) : \E s \in SlotsOfMatrix(mats, k) :
          At(mats[k], s[1], s[2]).left < 0 \/ At(mats[k], s[1], s[2]).right < 0

(***************************************************************************)
(* C25: all the matrices yielded by one call of matrixes(n) have the same  *)
(* pagesize, for every scheme and any creep, copycutfold included.         *)
(***************************************************************************)
C25_OnePagesize ==
    (pc = "yielded" /\ raised = "") =>
        \A size \in SourceSizes : \A k \in 1..Len(mats) :
            Pagesize(mats[k], size) = Pagesize(mats[1], size)

\* the schemes other than copycutfold, and copycutfold without creep
C25_OnePagesizeWithoutInsertedCreep ==
    (pc = "yielded" /\ raised = ""
        /\ (cfg.scheme = "copycutfold" => cfg.creep = nocreep)) =>
        \A size \in SourceSizes : \A k \in 1..Len(mats) :
            Pagesize(mats[k], size) = Pagesize(mats[1], size)

C25_Witness ==
    /\ pc = "yielded" /\ raised = ""
    /\ cfg.scheme = "cutstackfold" /\ cfg.creep # nocreep
    /\ Len(mats) >= 4

(***************************************************************************)
(* C26: signature2folds(w, h) terminates for powers of two w and h and     *)
(* returns exactly log2(w) letters h and log2(h) letters v; (4, 2) gives   *)
(* the same folds as "hvh".                                                *)
(***************************************************************************)
C26_FoldsMatchSignature ==
    (pc = "cli" /\ cli.stage # "parsed" /\ cli.args.signature # <<>> /\ cli.raised # "UserError")
        => /\ Pow2(Count(cli.folds, "h")) = cli.args.signature[1]
           /\ Pow2(Count(cli.folds, "v")) = cli.args.signature[2]
           /\ (cli.args.signature = <<4, 2>> => cli.folds = <<"h", "v", "h">>)

\* what signature2folds does return: log2(w) + log2(h) alternating letters,
\* starting with h when w > h
C26_FoldsAlternate ==
    (pc = "cli" /\ cli.stage # "parsed" /\ cli.args.signature # <<>> /\ cli.raised # "UserError")
        => /\ Pow2(Len(cli.folds)) = cli.args.signature[1] * cli.args.signature[2]
           /\ \A i \in 1..Len(cli.folds) :
                 cli.folds[i] = IF (i % 2 = 1) = (cli.args.signature[1] > cli.args.signature[2])
                                THEN "h" ELSE "v"

C26_Witness ==
    pc = "cli" /\ cli.stage = "folded" /\ cli.args.signature = <<4, 2>>

(***************************************************************************)
(* C27: any2folds given a format: when the source page fits the format in  *)
(* neither orientation it raises UserError rather than any other           *)
(* exception; otherwise it returns folds whose grid of 2^#h by 2^#v source *)
(* pages fits the format in one of the two orientations.                   *)
(***************************************************************************)
\* the size any2folds is given: swapped for a bind at the top or the bottom
CliInputSize ==
    IF cli.args.bind \in {"top", "bottom"}
    THEN <<cli.args.size[2], cli.args.size[1]>> ELSE cli.args.size

\* w by h pages of size `size` fit the sheet as it is or turned
GridFits(w, h, size, sheet) ==
    \/ w * size[1] <= sheet[1] /\ h * size[2] <= sheet[2]
    \/ w * size[1] <= sheet[2] /\ h * size[2] <= sheet[1]

C27_FoldsFitFormat ==
    (pc = "cli" /\ cli.stage \in {"folded", "exit"} /\ cli.args.format # <<>>) =>
        IF GridFits(1, 1, CliInputSize, cli.args.format)
        THEN /\ cli.raised = ""
             /\ GridFits(Pow2(Count(cli.folds, "h")), Pow2(Count(cli.folds, "v")),
                         CliInputSize, cli.args.format)
        ELSE cli.raised = "UserError"

\* the source page fits the format one way only, and any2folds raises
C27_RaisesThoughItFits ==
    /\ pc = "cli" /\ cli.stage = "exit" /\ cli.args.format # <<>>
    /\ GridFits(1, 1, CliInputSize, cli.args.format)
    /\ cli.raised = "ValueError"

(***************************************************************************)
(* C28: perfect called with --format F and imargin = 0: the output margins *)
(* of folds2margins make the pagesize equal to F, that is omargin.left +   *)
(* 2^#h * W + omargin.right is the width of F, and likewise the height.    *)
(***************************************************************************)
C28_PagesizeIsFormat ==
    (pc = "cli" /\ cli.stage = "imposed" /\ cli.raised = ""
        /\ cli.args.format # <<>> /\ cli.args.imargin = 0) =>
        /\ cli.pagesize = cli.args.format
        /\ cli.omargin.left + Pow2(Count(cli.folds, "h")) * cli.args.size[1]
              + cli.omargin.right = cli.args.format[1]
        /\ cli.omargin.top + Pow2(Count(cli.folds, "v")) * cli.args.size[2]
              + cli.omargin.bottom = cli.args.format[2]

\* the sheet is the format plus what the grid leaves of it, in each direction
C28_PagesizeIsFormatPlusRest ==
    (pc = "cli" /\ cli.stage = "imposed" /\ cli.raised = ""
        /\ cli.args.format # <<>> /\ cli.args.imargin = 0 /\ cli.args.bind = "left") =>
        /\ cli.pagesize[1] = 2 * cli.args.format[1]
                             - Pow2(Count(cli.folds, "h")) * cli.args.size[1]
        /\ cli.pagesize[2] = 2 * cli.args.format[2]
                             - Pow2(Count(cli.folds, "v")) * cli.args.size[2]

C28_WitnessExactGrid ==
    /\ pc = "cli" /\ cli.stage = "imposed" /\ cli.raised = ""
    /\ cli.args.imargin = 0
    /\ cli.args.format = <<40, 28>> /\ cli.pagesize = <<40, 28>>

(***************************************************************************)
(* C29: for every n >= 1 source pages and every last >= 0, last > n        *)
(* included, with b = blank_page_number(n): every logical index in         *)
(* [0, n + b) resolves to a blank or to a source page with an index in     *)
(* [0, n), exactly b logical indices are blank, and every source page is   *)
(* the value of exactly one logical index.                                 *)
(***************************************************************************)
\* what the reader returns for the logical indices
Logical(i) == ReaderGetItem(files, blank_number, blank_position, i)

C29_LogicalPagesAnyLast ==
    LET n == SumLen(files)
        b == BlankPageNumber(cfg, n)
    IN  (pc # "start" /\ raised # "UserError") =>
            /\ \A i \in 0..(n + b - 1) :
                  \/ Logical(i) = None
                  \/ \E j \in 0..(n - 1) : Logical(i) = SourcePage(files, j)
            /\ Cardinality({i \in 0..(n + b - 1) : Logical(i) = None}) = b
            /\ \A j \in 0..(n - 1) :
                  Cardinality({i \in 0..(n + b - 1) : Logical(i) = SourcePage(files, j)}) = 1

\* the same for last <= n
C29_LogicalPagesLastWithin ==
    LET n == SumLen(files)
        b == BlankPageNumber(cfg, n)
    IN  (pc # "start" /\ raised # "UserError" /\ cfg.last <= n) =>
            /\ \A i \in 0..(n + b - 1) :
                  \/ Logical(i) = None
                  \/ \E j \in 0..(n - 1) : Logical(i) = SourcePage(files, j)
            /\ Cardinality({i \in 0..(n + b - 1) : Logical(i) = None}) = b
            /\ \A j \in 0..(n - 1) :
                  Cardinality({i \in 0..(n + b - 1) : Logical(i) = SourcePage(files, j)}) = 1

\* one source page, last = 2: the blanks start at logical index -1
C29_BlanksBeforeZero ==
    /\ pc # "start" /\ raised # "UserError"
    /\ files = <<1>> /\ cfg.last = 2
    /\ blank_position = -1

(***************************************************************************)
(* C30: the result of the legacy imposition_matrix(folds, bind) depends    *)
(* only on its arguments, for any sequence of calls: it is the matrix a    *)
(* first call yields, with every cell filled and all page numbers          *)
(* distinct.                                                               *)
(***************************************************************************)
\* every cell holds a page and no two cells hold the same number
FilledAndDistinct(matrix) ==
    LET cells == (1..Len(matrix)) \X (1..Len(matrix[1]))
    IN  /\ \A c \in cells : matrix[c[1]][c[2]] # NoImpositionPage
        /\ \A c, d \in cells :
              matrix[c[1]][c[2]].number = matrix[d[1]][d[2]].number => c = d

C30_ImpositionMatrixIsPure ==
    (pc = "legacy" /\ legacy.calls >= 1) =>
        /\ legacy.result.raised = ""
        /\ legacy.result.matrix
              = imposition_matrix(<<>>, legacy.args.folds, legacy.args.bind).matrix
        /\ FilledAndDistinct(legacy.result.matrix)

\* the first call in an interpreter yields a filled matrix of distinct numbers
C30_FirstCallFills ==
    (pc = "legacy" /\ legacy.calls = 1) =>
        /\ legacy.result.raised = ""
        /\ FilledAndDistinct(legacy.result.matrix)
        /\ Len(legacy.folds) = Len(legacy.args.folds) + 1

\* every later call raises
C30_LaterCallsRaise ==
    (pc = "legacy" /\ legacy.calls >= 2) => legacy.result.raised # ""
====
